---- MODULE Spec2Model ----
(***************************************************************************)
(* The SQL query agent workflow of src/src/SQL_Query_Agent.py: the graph   *)
(* built by SQLQueryAgent._build_graph, the nodes of WorkflowManager, and  *)
(* the two calls the client makes on the compiled graph                    *)
(* (src/src/streamlit_app.py: stream(initial_state, config) and            *)
(* stream(Command(resume=feedback), config)), per thread_id.               *)
(*                                                                         *)
(* Python's None is the empty sequence, a present value x is <<x>>.        *)
(* User-visible texts are written in ASCII in place of the source's        *)
(* Korean literals.                                                        *)
(***************************************************************************)
EXTENDS Integers, Sequences, FiniteSets, TLC

VARIABLES
    pc,         \* per thread: the node the walk runs next, or none/suspended/completed
    values,     \* per thread: the State channels (the checkpoint's values)
    interrupt,  \* per thread: the pending interrupt payload of the checkpoint
    sends,      \* per thread: the Send payloads of the fan-out in flight
    writes,     \* per thread: the updates returned by the finished fan-out tasks
    finished,   \* per thread: the producers of the fan-out in completion order
    base,       \* per thread: Len(query_suggestion) when the fan-out was dispatched
    call,       \* per thread: the stream call in progress or last made
    ran,        \* per thread: how often each node ran during that call
    executed,   \* per thread: the executor's invocations during that call
    gen,        \* per thread: the number of fan-outs dispatched so far
    faults,     \* the number of chain invocations that raised, all threads together
    thread_id,  \* st.session_state.thread_id: the thread the client's calls name
    workflow_state, \* st.session_state.workflow_state
    ui,         \* the other fields of st.session_state: messages, current_interrupt,
                \* pending_feedback and the flags of the panels
    query_suggestions,   \* the argument handed to _process_query_suggestions
    display_suggestions, \* what _process_query_suggestions returned for it
    retry,      \* one call of SafeExecutor.execute_with_retry: its argument, its
                \* position in the loop, the calls of func and the waits so far
    ops         \* the number of stream calls made so far

vars == <<pc, values, interrupt, sends, writes, finished, base, call, ran, executed, gen, faults,
         thread_id, workflow_state, ui, query_suggestions, display_suggestions, retry, ops>>

\* the variables of the functions that are checked on their own
fnvars == <<query_suggestions, display_suggestions, retry>>

----------------------------------------------------------------------------
(* Bounds of the model *)

MaxFanOuts == 2     \* fan-outs dispatched, all threads together
MaxOps == 4         \* stream calls made, all threads together
MaxGenFaults == 2   \* chain invocations that raise, all threads together
MaxInputs == 3      \* inputs the user sends from the panels of the client

\* the thread ids uuid4 hands out, in this order; none is handed out twice
ThreadIds == {"t1", "t2"}
ThreadOrder == << "t1", "t2" >>

----------------------------------------------------------------------------
(* Values *)

None == <<>>
Some(x) == <<x>>

Agents == {1, 2, 3}
AgentName(k) == "query_agent_" \o ToString(k)

Nodes == {"gateway", "query_agent_1", "query_agent_2", "query_agent_3",
          "aggregate", "wait_user_feedback", "execute_query",
          "end_on_success", "end_on_error", "end_on_cancel"}

Selectors == {"1", "2", "3"}
CancelKeywords == {"stop", "cancel", "exit", "quit"}

\* what the user may type that is neither a selector nor a cancel keyword
FeedbackTexts == {"bad input", "Cancel"}
ResumeInputs == Selectors \cup CancelKeywords \cup FeedbackTexts

Questions == {"how many rows in table X?"}

\* the text an exception carries (str(e)); an exception may carry no text
GenFaults == {"llm timeout"}
ExecFaults == {"db down", ""}

\* The query a generation chain answers with. Each invocation answers a text
\* of its own: the producer and the number of the fan-out that invoked it.
ChainQuery(k, n) == "SELECT " \o ToString(k) \o "." \o ToString(n)
SuggestionLists == {<<>>, <<"add index">>}

\* The responses of a chain invocation: a structured output, or an exception.
ChainResponses(k, n) ==
    { [ok |-> TRUE, query |-> ChainQuery(k, n), suggestion |-> s, fault |-> ""] :
        s \in (IF k = 3 THEN SuggestionLists ELSE {<<>>}) }
    \cup { [ok |-> FALSE, query |-> "", suggestion |-> <<>>, fault |-> f] : f \in GenFaults }

\* The outcomes of DatabaseManager.execute_query: a result text, or an exception.
ExecOutcomes(q) ==
    { [ok |-> TRUE, result |-> "rows of " \o q, fault |-> ""] }
    \cup { [ok |-> FALSE, result |-> "", fault |-> f] : f \in ExecFaults }

\* str(x) of an optional text
Str(opt) == IF opt = None THEN "None" ELSE opt[1]

RECURSIVE JoinList(_)
JoinList(l) == IF l = <<>> THEN ""
               ELSE IF Len(l) = 1 THEN "'" \o l[1] \o "'"
               ELSE "'" \o l[1] \o "', " \o JoinList(Tail(l))
\* str(x) of a list of texts
StrList(l) == "[" \o JoinList(l) \o "]"

----------------------------------------------------------------------------
(* State and its reducers *)

AppendFields == {"query_suggestion", "messages"}

EmptyState ==
    [ user_request |-> None, user_feedback |-> None, selected_query |-> None,
      query_suggestion |-> <<>>, refactoring_suggestion |-> None,
      query_result |-> None, error_message |-> None, messages |-> <<>> ]

\* every channel overwriting, none appending
MergeOverwrite(s, u) ==
    [ f \in DOMAIN s |-> IF f \in DOMAIN u THEN u[f] ELSE s[f] ]

\* A node returns a partial update; the channels with the reducer `add`
\* (query_suggestion) or add_messages (messages) append, the others overwrite.
Merge(s, u) ==
    [ f \in DOMAIN s |->
        IF f \in DOMAIN u
        THEN IF f \in AppendFields THEN s[f] \o u[f] ELSE u[f]
        ELSE s[f] ]

----------------------------------------------------------------------------
(* The nodes of WorkflowManager, as functions from the state they read (and *)
(* the answer of the collaborator they call) to the partial update they     *)
(* return.                                                                  *)

\* gateway clearing the feedback along with the four result fields
GatewayClearsFeedback(state) ==
    [ selected_query |-> None, query_suggestion |-> <<>>,
      refactoring_suggestion |-> None, query_result |-> None,
      error_message |-> None, user_feedback |-> None ]

gateway(state) ==
    [ selected_query |-> None, query_suggestion |-> <<>>,
      refactoring_suggestion |-> None, query_result |-> None,
      error_message |-> None ]

\* the Send payload of each fan-out target
generate_query(state) ==
    [ k \in Agents |-> [ user_request |-> state.user_request,
                         user_feedback |-> state.user_feedback ] ]

ErrorQuery(fault) == "-- Error: " \o fault

query_agent_1(payload, response) ==
    IF response.ok
    THEN [ query_suggestion |-> << <<"query_agent_1", [query |-> response.query]>> >> ]
    ELSE [ query_suggestion |-> << <<"query_agent_1", [query |-> ErrorQuery(response.fault)]>> >> ]

query_agent_2(payload, response) ==
    IF response.ok
    THEN [ query_suggestion |-> << <<"query_agent_2", [query |-> response.query]>> >> ]
    ELSE [ query_suggestion |-> << <<"query_agent_2", [query |-> ErrorQuery(response.fault)]>> >> ]

query_agent_3(payload, response) ==
    IF response.ok
    THEN [ query_suggestion |->
             << <<"query_agent_3", [query |-> response.query,
                                    suggestion |-> response.suggestion]>> >> ]
    ELSE [ query_suggestion |->
             << <<"query_agent_3", [query |-> ErrorQuery(response.fault),
                                    suggestion |-> <<>>]>> >> ]

query_agent(k, payload, response) ==
    CASE k = 1 -> query_agent_1(payload, response)
      [] k = 2 -> query_agent_2(payload, response)
      [] k = 3 -> query_agent_3(payload, response)

\* aggregate returns the empty update
aggregate(state) == << >>


\* the index of the first entry of producer agent_name, 0 when there is none:
\* the entry at which the loops of find_selected_query and find_suggestion return
FirstEntry(qs, agent_name) ==
    LET I == { i \in 1..Len(qs) : qs[i][1] = agent_name }
    IN  IF I = {} THEN 0 ELSE CHOOSE i \in I : \A j \in I : i <= j

find_selected_query(state, agent_name) ==
    LET i == FirstEntry(state.query_suggestion, agent_name)
    IN  IF i = 0 THEN None ELSE Some(state.query_suggestion[i][2].query)

find_suggestion(state, agent_name) ==
    LET i == FirstEntry(state.query_suggestion, agent_name)
    IN  IF i = 0 THEN <<>>
        ELSE IF "suggestion" \in DOMAIN state.query_suggestion[i][2]
             THEN state.query_suggestion[i][2].suggestion
             ELSE <<>>

\* an interrupt payload that carries no candidates
InterruptPayloadNoCandidates(state) ==
    [ action |-> "wait_user_feedback", query_suggestions |-> << >> ]

\* the payload wait_user_feedback passes to interrupt(...)
InterruptPayload(state) ==
    [ action |-> "wait_user_feedback", query_suggestions |-> state.query_suggestion ]

\* wait_user_feedback looking up the wrong producer for selector "2"
WaitUserFeedbackWrongAgent(state, user_input) ==
    IF user_input = "1"
    THEN [ user_feedback |-> Some("1"),
           selected_query |-> find_selected_query(state, "query_agent_1") ]
    ELSE IF user_input = "2"
    THEN [ user_feedback |-> Some("2"),
           selected_query |-> find_selected_query(state, "query_agent_1") ]
    ELSE IF user_input = "3"
    THEN [ user_feedback |-> Some("3"),
           selected_query |-> find_selected_query(state, "query_agent_3"),
           refactoring_suggestion |-> Some(find_suggestion(state, "query_agent_3")) ]
    ELSE [ user_feedback |-> Some(user_input) ]

\* wait_user_feedback returning nothing for an input that is no selector
WaitUserFeedbackDropsFeedback(state, user_input) ==
    IF user_input = "1"
    THEN [ user_feedback |-> Some("1"),
           selected_query |-> find_selected_query(state, "query_agent_1") ]
    ELSE IF user_input = "2"
    THEN [ user_feedback |-> Some("2"),
           selected_query |-> find_selected_query(state, "query_agent_2") ]
    ELSE IF user_input = "3"
    THEN [ user_feedback |-> Some("3"),
           selected_query |-> find_selected_query(state, "query_agent_3"),
           refactoring_suggestion |-> Some(find_suggestion(state, "query_agent_3")) ]
    ELSE << >>

\* wait_user_feedback storing a refactoring suggestion for selector "2" as well
WaitUserFeedbackSuggestsFor2(state, user_input) ==
    IF user_input = "1"
    THEN [ user_feedback |-> Some("1"),
           selected_query |-> find_selected_query(state, "query_agent_1") ]
    ELSE IF user_input = "2"
    THEN [ user_feedback |-> Some("2"),
           selected_query |-> find_selected_query(state, "query_agent_2"),
           refactoring_suggestion |-> Some(find_suggestion(state, "query_agent_2")) ]
    ELSE IF user_input = "3"
    THEN [ user_feedback |-> Some("3"),
           selected_query |-> find_selected_query(state, "query_agent_3"),
           refactoring_suggestion |-> Some(find_suggestion(state, "query_agent_3")) ]
    ELSE [ user_feedback |-> Some(user_input) ]

\* wait_user_feedback selecting a query for an input that is no selector too
WaitUserFeedbackAlwaysSelects(state, user_input) ==
    IF user_input = "1"
    THEN [ user_feedback |-> Some("1"),
           selected_query |-> find_selected_query(state, "query_agent_1") ]
    ELSE IF user_input = "2"
    THEN [ user_feedback |-> Some("2"),
           selected_query |-> find_selected_query(state, "query_agent_2") ]
    ELSE IF user_input = "3"
    THEN [ user_feedback |-> Some("3"),
           selected_query |-> find_selected_query(state, "query_agent_3"),
           refactoring_suggestion |-> Some(find_suggestion(state, "query_agent_3")) ]
    ELSE [ user_feedback |-> Some(user_input),
           selected_query |-> find_selected_query(state, "query_agent_1") ]

\* wait_user_feedback once interrupt(...) has returned user_input
wait_user_feedback(state, user_input) ==
    IF user_input = "1"
    THEN [ user_feedback |-> Some("1"),
           selected_query |-> find_selected_query(state, "query_agent_1") ]
    ELSE IF user_input = "2"
    THEN [ user_feedback |-> Some("2"),
           selected_query |-> find_selected_query(state, "query_agent_2") ]
    ELSE IF user_input = "3"
    THEN [ user_feedback |-> Some("3"),
           selected_query |-> find_selected_query(state, "query_agent_3"),
           refactoring_suggestion |-> Some(find_suggestion(state, "query_agent_3")) ]
    ELSE [ user_feedback |-> Some(user_input) ]

\* next_after_feedback with "quit" missing from the cancel keywords
NextAfterFeedbackNoQuit(state) ==
    LET user_input == state.user_feedback
    IN  IF user_input \in { Some(x) : x \in {"1", "2", "3"} } THEN "execute"
        ELSE IF user_input \in { Some(x) : x \in {"stop", "cancel", "exit"} }
             THEN "cancel"
        ELSE "retry"

next_after_feedback(state) ==
    LET user_input == state.user_feedback
    IN  IF user_input \in { Some(x) : x \in {"1", "2", "3"} } THEN "execute"
        ELSE IF user_input \in { Some(x) : x \in {"stop", "cancel", "exit", "quit"} }
             THEN "cancel"
        ELSE "retry"

\* the mapping of the conditional edges out of wait_user_feedback
AfterFeedbackTarget(label) ==
    CASE label = "retry" -> "gateway"
      [] label = "execute" -> "execute_query"
      [] label = "cancel" -> "end_on_cancel"

execute_query(state, outcome) ==
    IF outcome.ok
    THEN [ query_result |-> Some(outcome.result), error_message |-> None ]
    ELSE [ query_result |-> None, error_message |-> Some(outcome.fault) ]

\* the routing lambda testing the truth of error_message instead of `is None`
NextAfterExecuteTruthy(x) ==
    IF x.error_message = None \/ x.error_message = Some("") THEN "success" ELSE "error"

\* the lambda of the conditional edges out of execute_query, and its mapping
next_after_execute(x) == IF x.error_message = None THEN "success" ELSE "error"

\* conditional edges that send a failed execution back into execute_query
AfterExecuteTargetRetry(label) ==
    CASE label = "success" -> "end_on_success"
      [] label = "error" -> "execute_query"

AfterExecuteTarget(label) ==
    CASE label = "success" -> "end_on_success"
      [] label = "error" -> "end_on_error"

MsgDone == "query execution completed"
MsgError == "query execution error"
MsgCancel == "query execution cancelled"

\* Python truth of state.get("refactoring_suggestion"): None and [] are false
Truthy(opt) == opt # None /\ opt[1] # <<>>

\* end_on_success without the message carrying the result
EndOnSuccessNoResult(state) ==
    [ messages |->
        << MsgDone >>
        \o (IF Truthy(state.refactoring_suggestion)
            THEN << StrList(state.refactoring_suggestion[1]) >>
            ELSE << >>) ]

\* end_on_success appending the suggestion message for an empty list as well
EndOnSuccessAnySuggestion(state) ==
    [ messages |->
        << MsgDone, Str(state.query_result) >>
        \o (IF state.refactoring_suggestion # None
            THEN << StrList(state.refactoring_suggestion[1]) >>
            ELSE << >>) ]

end_on_success(state) ==
    [ messages |->
        << MsgDone, Str(state.query_result) >>
        \o (IF Truthy(state.refactoring_suggestion)
            THEN << StrList(state.refactoring_suggestion[1]) >>
            ELSE << >>) ]

end_on_error(state) ==
    [ messages |-> << MsgError, Str(state.error_message) >> ]

end_on_cancel(state) ==
    [ messages |-> << MsgCancel >> ]

\* the initial_state process_initial_question streams into the graph
initial_state(question) ==
    [ user_request |-> Some(question), user_feedback |-> Some(""),
      selected_query |-> None, query_suggestion |-> <<>>,
      refactoring_suggestion |-> None, query_result |-> None,
      error_message |-> None, messages |-> <<>> ]

----------------------------------------------------------------------------
(* The compiled graph with its InMemorySaver, driven by the stream calls. *)

\* positions at which no stream call is in progress on a thread
Idle == {"none", "suspended", "completed"}

\* The compiled graph lives in one client session (st.session_state.agent) and
\* the session's script makes one stream call at a time: a call begins only
\* when none is in progress on the graph.
NoCallInProgress == \A u \in ThreadIds : pc[u] \in Idle

\* the calls of process_initial_question and process_feedback name the
\* session's thread_id
ClientCall(t) == t = thread_id /\ NoCallInProgress /\ ops < MaxOps

RECURSIVE SumGen(_)
SumGen(ids) == IF ids = << >> THEN 0 ELSE gen[Head(ids)] + SumGen(Tail(ids))
\* the walk is not sent through gateway more than MaxFanOuts times
FanOutsLeft == SumGen(ThreadOrder) < MaxFanOuts

NoRuns == [ n \in Nodes |-> 0 ]
\* a stream call: what it was given, how it ended, and what the thread's
\* checkpoint was when it began (its status and the length of its transcript)
NoCall == [ kind |-> "none", input |-> "", status |-> "none", messages0 |-> 0,
            at |-> "none" ]
NoTasks == [ k \in Agents |-> None ]

\* _initialize_session_state: the fields of a new session
InitialUi ==
    [ messages |-> << >>, current_interrupt |-> None, buttons_disabled |-> FALSE,
      query_suggestions_displayed |-> FALSE, interaction_panel_cleared |-> FALSE,
      feedback_sent |-> FALSE, pending_feedback |-> None ]

\* no call of execute_with_retry has been made
NoRetry ==
    [ max_retries |-> 0, attempt |-> 0, history |-> << >>, sleeps |-> 0,
      status |-> "idle", result |-> None ]

Init ==
    /\ pc = [ t \in ThreadIds |-> "none" ]
    /\ values = [ t \in ThreadIds |-> EmptyState ]
    /\ interrupt = [ t \in ThreadIds |-> None ]
    /\ sends = [ t \in ThreadIds |-> NoTasks ]
    /\ writes = [ t \in ThreadIds |-> NoTasks ]
    /\ finished = [ t \in ThreadIds |-> << >> ]
    /\ base = [ t \in ThreadIds |-> 0 ]
    /\ call = [ t \in ThreadIds |-> NoCall ]
    /\ ran = [ t \in ThreadIds |-> NoRuns ]
    /\ executed = [ t \in ThreadIds |-> << >> ]
    /\ gen = [ t \in ThreadIds |-> 0 ]
    /\ faults = 0
    /\ thread_id = ThreadOrder[1]
    /\ workflow_state = "waiting_for_question"
    /\ ui = InitialUi
    /\ query_suggestions = << >>
    /\ display_suggestions = None
    /\ retry = NoRetry
    /\ ops = 0

Ran(t, node) == ran' = [ ran EXCEPT ![t][node] = @ + 1 ]

\* get_state(config).next as _handle_workflow_state reads it
StateNext(t) == IF pc[t] = "suspended" THEN << "wait_user_feedback" >> ELSE << >>

\* set_completion_state naming a state of its own
SetCompletionStateDone == "done"

\* the workflow_state the client's handlers set
set_processing_state == "processing"
set_feedback_waiting_state == "waiting_for_feedback"
set_completion_state == "waiting_for_question"

add_message(u, role, content) ==
    [ u EXCEPT !.messages = Append(@, [ role |-> role, content |-> content ]) ]

\* the flags the three state setters write besides workflow_state
set_processing_flags(u) == [ u EXCEPT !.interaction_panel_cleared = FALSE ]

\* set_feedback_waiting_state leaving the buttons as they are
SetFeedbackWaitingKeepsButtons(u) ==
    [ u EXCEPT !.query_suggestions_displayed = FALSE, !.feedback_sent = FALSE ]

set_feedback_waiting_flags(u) ==
    [ u EXCEPT !.buttons_disabled = FALSE, !.query_suggestions_displayed = FALSE,
               !.feedback_sent = FALSE ]

\* set_completion_state leaving interaction_panel_cleared as it is
SetCompletionKeepsPanel(u) ==
    [ u EXCEPT !.buttons_disabled = FALSE, !.query_suggestions_displayed = FALSE,
               !.feedback_sent = FALSE, !.pending_feedback = None ]

set_completion_flags(u) ==
    [ u EXCEPT !.buttons_disabled = FALSE, !.query_suggestions_displayed = FALSE,
               !.interaction_panel_cleared = TRUE, !.feedback_sent = FALSE,
               !.pending_feedback = None ]

RECURSIVE process_workflow_events(_, _)
\* _process_workflow_events: the messages of the call's events are added to
\* the session's messages; of this graph only the terminal nodes return any
process_workflow_events(u, msgs) ==
    IF msgs = << >> THEN u
    ELSE process_workflow_events(add_message(u, "assistant", Head(msgs)), Tail(msgs))

\* _extract_interrupt_data: the first interrupt of the state's tasks, an
\* Interrupt object whose value is the payload
extract_interrupt_data(pending) == [ value |-> pending[1] ]

\* the session fields _handle_workflow_state writes for the state it is given
handle_workflow_state_ui(u, next, pending) ==
    IF next # << >>
    THEN set_feedback_waiting_flags(
             [ u EXCEPT !.current_interrupt = Some(extract_interrupt_data(pending)) ])
    ELSE set_completion_flags([ u EXCEPT !.current_interrupt = None ])

\* the message the feedback panel adds for an input: the option buttons
\* ("1", "2", "3", "cancel") add a selection line, the text box the text
OptionButtons == {"1", "2", "3", "cancel"}
SelectionMessage(user_input) == "selected: " \o user_input

\* _handle_workflow_state taking every returned call for a completion
HandleWorkflowStateIgnoresNext(next) == set_completion_state

\* _handle_workflow_state on the `next` of the state read after the stream
\* call has returned
handle_workflow_state(next) ==
    IF next # << >> THEN set_feedback_waiting_state ELSE set_completion_state

\* agent.stream(initial_state, config): the input is merged into the thread's
\* channels through the reducers and the walk starts at START -> gateway.
Start(t, question) ==
    /\ pc[t] \in Idle
    /\ ClientCall(t)
    /\ FanOutsLeft
    /\ values' = [ values EXCEPT ![t] = Merge(@, initial_state(question)) ]
    /\ pc' = [ pc EXCEPT ![t] = "gateway" ]
    /\ interrupt' = [ interrupt EXCEPT ![t] = None ]
    /\ call' = [ call EXCEPT ![t] =
                   [ kind |-> "start", input |-> question, status |-> "running",
                     messages0 |-> Len(values[t].messages), at |-> pc[t] ] ]
    /\ ran' = [ ran EXCEPT ![t] = NoRuns ]
    /\ executed' = [ executed EXCEPT ![t] = << >> ]
    /\ workflow_state' = set_processing_state
    /\ ui' = set_processing_flags(add_message(ui, "user", question))
    /\ UNCHANGED <<sends, writes, finished, base, gen, faults, thread_id, fnvars>>
    /\ ops' = ops + 1

\* the node gateway, then the conditional edge generate_query dispatching the
\* three Send tasks
Gateway(t) ==
    /\ pc[t] = "gateway"
    /\ LET s1 == Merge(values[t], gateway(values[t]))
       IN  /\ values' = [ values EXCEPT ![t] = s1 ]
           /\ sends' = [ sends EXCEPT ![t] = generate_query(s1) ]
           /\ base' = [ base EXCEPT ![t] = Len(s1.query_suggestion) ]
    /\ writes' = [ writes EXCEPT ![t] = NoTasks ]
    /\ finished' = [ finished EXCEPT ![t] = << >> ]
    /\ gen' = [ gen EXCEPT ![t] = @ + 1 ]
    /\ pc' = [ pc EXCEPT ![t] = "agents" ]
    /\ Ran(t, "gateway")
    /\ UNCHANGED <<interrupt, call, executed, faults, thread_id, workflow_state, ui, fnvars, ops>>

\* one of the three fan-out tasks returns; the tasks finish in any order
QueryAgent(t, k) ==
    /\ pc[t] = "agents"
    /\ writes[t][k] = None
    /\ \E response \in ChainResponses(k, gen[t]) :
         /\ ~response.ok => faults < MaxGenFaults
         /\ faults' = IF response.ok THEN faults ELSE faults + 1
         /\ writes' = [ writes EXCEPT ![t][k] = Some(query_agent(k, sends[t][k], response)) ]
    /\ finished' = [ finished EXCEPT ![t] = Append(@, k) ]
    /\ Ran(t, AgentName(k))
    /\ UNCHANGED <<pc, values, interrupt, sends, base, call, executed, gen, thread_id, workflow_state, ui, fnvars, ops>>

\* a join that goes on as soon as two of the three tasks have returned
FanInPartial(t) ==
    /\ pc[t] = "agents"
    /\ Len(finished[t]) >= 2
    /\ LET w(k) == IF writes[t][k] = None THEN << >> ELSE writes[t][k][1]
       IN  values' = [ values EXCEPT ![t] = Merge(Merge(Merge(@, w(1)), w(2)), w(3)) ]
    /\ pc' = [ pc EXCEPT ![t] = "aggregate" ]
    /\ sends' = [ sends EXCEPT ![t] = NoTasks ]
    /\ writes' = [ writes EXCEPT ![t] = NoTasks ]
    /\ finished' = [ finished EXCEPT ![t] = << >> ]
    /\ UNCHANGED <<interrupt, base, call, ran, executed, gen, faults, thread_id, workflow_state, ui, fnvars, ops>>

\* a join that applies the writes of the tasks to the channels of every
\* thread, as a store that is not keyed by thread_id would
FanInShared(t) ==
    /\ pc[t] = "agents"
    /\ \A k \in Agents : writes[t][k] # None
    /\ values' = [ u \in ThreadIds |->
                     Merge(Merge(Merge(values[u], writes[t][1][1]), writes[t][2][1]),
                           writes[t][3][1]) ]
    /\ pc' = [ pc EXCEPT ![t] = "aggregate" ]
    /\ sends' = [ sends EXCEPT ![t] = NoTasks ]
    /\ writes' = [ writes EXCEPT ![t] = NoTasks ]
    /\ finished' = [ finished EXCEPT ![t] = << >> ]
    /\ UNCHANGED <<interrupt, base, call, ran, executed, gen, faults, thread_id, workflow_state, ui, fnvars, ops>>

\* the end of the fan-out's step: the writes of the three tasks are applied
\* through the reducers, in the order of the Send list, and the edges
\* query_agent_k -> aggregate make aggregate the next node
FanIn(t) ==
    /\ pc[t] = "agents"
    /\ \A k \in Agents : writes[t][k] # None
    /\ values' = [ values EXCEPT ![t] =
                     Merge(Merge(Merge(@, writes[t][1][1]), writes[t][2][1]), writes[t][3][1]) ]
    /\ pc' = [ pc EXCEPT ![t] = "aggregate" ]
    /\ sends' = [ sends EXCEPT ![t] = NoTasks ]
    /\ writes' = [ writes EXCEPT ![t] = NoTasks ]
    /\ finished' = [ finished EXCEPT ![t] = << >> ]
    /\ UNCHANGED <<interrupt, base, call, ran, executed, gen, faults, thread_id, workflow_state, ui, fnvars, ops>>

Aggregate(t) ==
    /\ pc[t] = "aggregate"
    /\ values' = [ values EXCEPT ![t] = Merge(@, aggregate(@)) ]
    /\ pc' = [ pc EXCEPT ![t] = "wait_user_feedback" ]
    /\ Ran(t, "aggregate")
    /\ UNCHANGED <<interrupt, sends, writes, finished, base, call, executed, gen, faults, thread_id, workflow_state, ui, fnvars, ops>>

\* wait_user_feedback reaches interrupt(...): the walk halts, the checkpoint
\* keeps wait_user_feedback as the pending node and the stream call returns
Suspend(t) ==
    /\ pc[t] = "wait_user_feedback"
    /\ interrupt' = [ interrupt EXCEPT ![t] = Some(InterruptPayload(values[t])) ]
    /\ pc' = [ pc EXCEPT ![t] = "suspended" ]
    /\ call' = [ call EXCEPT ![t].status = "suspended" ]
    /\ Ran(t, "wait_user_feedback")
    /\ workflow_state' = handle_workflow_state(StateNext(t)')
    /\ ui' = handle_workflow_state_ui(ui, StateNext(t)', interrupt'[t])
    /\ UNCHANGED <<values, sends, writes, finished, base, executed, gen, faults, thread_id, fnvars, ops>>

\* agent.stream(Command(resume=user_input), config) on a thread suspended at
\* wait_user_feedback: the node runs again, interrupt(...) returns user_input,
\* the update is merged and next_after_feedback picks the next node
process_feedback(t, feedback) ==
    /\ pc[t] = "suspended"
    /\ ClientCall(t)
    /\ LET s1 == Merge(values[t], wait_user_feedback(values[t], feedback))
           target == AfterFeedbackTarget(next_after_feedback(s1))
       IN  /\ target = "gateway" => FanOutsLeft
           /\ values' = [ values EXCEPT ![t] = s1 ]
           /\ pc' = [ pc EXCEPT ![t] = target ]
    /\ interrupt' = [ interrupt EXCEPT ![t] = None ]
    /\ call' = [ call EXCEPT ![t] =
                   [ kind |-> "resume", input |-> feedback, status |-> "running",
                     messages0 |-> Len(values[t].messages), at |-> pc[t] ] ]
    /\ ran' = [ ran EXCEPT ![t] = [ NoRuns EXCEPT !["wait_user_feedback"] = 1 ] ]
    /\ executed' = [ executed EXCEPT ![t] = << >> ]
    /\ UNCHANGED <<sends, writes, finished, base, gen, faults, thread_id>>
    /\ ops' = ops + 1

\* an input at the feedback panel and the resume it leads to, in one step: the
\* panel's handler adds the user's message, disables the controls and goes to
\* processing; the rerun hands the input to process_feedback
Resume(t, user_input) ==
    /\ process_feedback(t, user_input)
    /\ workflow_state' = set_processing_state
    /\ ui' = [ set_processing_flags(
                  add_message(ui, "user",
                              IF user_input \in OptionButtons
                              THEN SelectionMessage(user_input) ELSE user_input))
                EXCEPT !.buttons_disabled = TRUE, !.feedback_sent = TRUE,
                       !.pending_feedback = None ]
    /\ UNCHANGED fnvars

\* agent.stream(Command(resume=feedback), config) on a thread whose walk has
\* reached END: the checkpoint has no pending node, so no task is prepared; the
\* call yields no event and returns, and the source raises nothing around it
ResumeCompleted(t, user_input) ==
    /\ pc[t] = "completed"
    /\ ClientCall(t)
    /\ call' = [ call EXCEPT ![t] =
                   [ kind |-> "resume", input |-> user_input, status |-> "no_tasks",
                     messages0 |-> Len(values[t].messages), at |-> pc[t] ] ]
    /\ ran' = [ ran EXCEPT ![t] = NoRuns ]
    /\ executed' = [ executed EXCEPT ![t] = << >> ]
    /\ workflow_state' = handle_workflow_state(StateNext(t))
    /\ ui' = handle_workflow_state_ui(ui, StateNext(t), interrupt[t])
    /\ UNCHANGED <<pc, values, interrupt, sends, writes, finished, base, gen, faults, thread_id, fnvars>>
    /\ ops' = ops + 1

\* execute_query without its try/except: the executor's exception leaves the
\* node, the stream call raises and process_feedback's handler takes over
ExecuteQueryUncaught(t) ==
    /\ pc[t] = "execute_query"
    /\ \E outcome \in ExecOutcomes(Str(values[t].selected_query)) :
         LET s1 == Merge(values[t], execute_query(values[t], outcome))
         IN  /\ values' = [ values EXCEPT ![t] = IF outcome.ok THEN s1 ELSE @ ]
             /\ pc' = [ pc EXCEPT ![t] =
                          IF outcome.ok THEN AfterExecuteTarget(next_after_execute(s1))
                          ELSE "aborted" ]
             /\ call' = [ call EXCEPT ![t].status = IF outcome.ok THEN @ ELSE "raised" ]
             /\ workflow_state' = IF outcome.ok THEN workflow_state ELSE set_completion_state
             /\ ui' = IF outcome.ok THEN ui ELSE set_completion_flags(ui)
             /\ executed' = [ executed EXCEPT ![t] =
                               Append(@, [ query |-> values[t].selected_query,
                                           outcome |-> outcome ]) ]
    /\ Ran(t, "execute_query")
    /\ UNCHANGED <<interrupt, sends, writes, finished, base, gen, faults, thread_id, fnvars, ops>>

ExecuteQuery(t) ==
    /\ pc[t] = "execute_query"
    /\ \E outcome \in ExecOutcomes(Str(values[t].selected_query)) :
         LET s1 == Merge(values[t], execute_query(values[t], outcome))
         IN  /\ values' = [ values EXCEPT ![t] = s1 ]
             /\ pc' = [ pc EXCEPT ![t] = AfterExecuteTarget(next_after_execute(s1)) ]
             /\ executed' = [ executed EXCEPT ![t] =
                               Append(@, [ query |-> values[t].selected_query,
                                           outcome |-> outcome ]) ]
    /\ Ran(t, "execute_query")
    /\ UNCHANGED <<interrupt, sends, writes, finished, base, call, gen, faults, thread_id, workflow_state, ui, fnvars, ops>>

\* a terminal node, then its edge to END: the checkpoint keeps no pending node
Terminal(t, node, update) ==
    /\ pc[t] = node
    /\ values' = [ values EXCEPT ![t] = Merge(@, update) ]
    /\ pc' = [ pc EXCEPT ![t] = "completed" ]
    /\ call' = [ call EXCEPT ![t].status = "completed" ]
    /\ Ran(t, node)
    /\ workflow_state' = handle_workflow_state(StateNext(t)')
    /\ ui' = handle_workflow_state_ui(process_workflow_events(ui, update.messages),
                                       StateNext(t)', interrupt'[t])
    /\ UNCHANGED <<interrupt, sends, writes, finished, base, executed, gen, faults, thread_id, fnvars, ops>>

EndOnSuccess(t) == Terminal(t, "end_on_success", end_on_success(values[t]))
EndOnError(t) == Terminal(t, "end_on_error", end_on_error(values[t]))
EndOnCancel(t) == Terminal(t, "end_on_cancel", end_on_cancel(values[t]))

Next ==
    \E t \in ThreadIds :
        \/ \E question \in Questions : Start(t, question)
        \/ Gateway(t)
        \/ \E k \in Agents : QueryAgent(t, k)
        \/ FanIn(t)
        \/ Aggregate(t)
        \/ Suspend(t)
        \/ \E user_input \in ResumeInputs : Resume(t, user_input)
        \/ \E user_input \in ResumeInputs : ResumeCompleted(t, user_input)
        \/ ExecuteQuery(t)
        \/ EndOnSuccess(t)
        \/ EndOnError(t)
        \/ EndOnCancel(t)

Spec == Init /\ [][Next]_vars

\* The stream loop of a call runs the walk on until it suspends or reaches END:
\* list(agent.stream(...)) consumes every event before the handler goes on.
Walk ==
    \E t \in ThreadIds :
        \/ Gateway(t)
        \/ \E k \in Agents : QueryAgent(t, k)
        \/ FanIn(t)
        \/ Aggregate(t)
        \/ Suspend(t)
        \/ ExecuteQuery(t)
        \/ EndOnSuccess(t)
        \/ EndOnError(t)
        \/ EndOnCancel(t)

FairSpec == Spec /\ WF_vars(Walk)

\* reset_session keeping the interrupt data of the discarded conversation
ResetSessionKeepsInterrupt ==
    /\ NoCallInProgress
    /\ ui.pending_feedback = None
    /\ \E i \in 1..(Len(ThreadOrder) - 1) :
         /\ thread_id = ThreadOrder[i]
         /\ thread_id' = ThreadOrder[i + 1]
    /\ workflow_state' = "waiting_for_question"
    /\ ui' = [ InitialUi EXCEPT !.current_interrupt = ui.current_interrupt ]
    /\ UNCHANGED <<pc, values, interrupt, sends, writes, finished, base, call, ran,
                   executed, gen, faults, fnvars, ops>>

\* reset_session: the session takes the next uuid4 as its thread_id and goes
\* back to the question input; the agent, and with it the InMemorySaver and
\* every checkpoint in it, stays in st.session_state
reset_session ==
    /\ NoCallInProgress
    /\ ui.pending_feedback = None
    /\ \E i \in 1..(Len(ThreadOrder) - 1) :
         /\ thread_id = ThreadOrder[i]
         /\ thread_id' = ThreadOrder[i + 1]
    /\ workflow_state' = "waiting_for_question"
    /\ ui' = [ InitialUi EXCEPT !.messages = << >> ]
    /\ UNCHANGED <<pc, values, interrupt, sends, writes, finished, base, call, ran,
                   executed, gen, faults, fnvars, ops>>

NextSession == Next \/ reset_session

\* the client session with its "new conversation" button
SpecSession == Init /\ [][NextSession]_vars

\* config = {"configurable": {"thread_id": ...}}: a caller of the compiled
\* graph names the thread of each stream call in the call's config
Config(t) ==
    /\ NoCallInProgress
    /\ t # thread_id
    /\ thread_id' = t
    /\ UNCHANGED <<pc, values, interrupt, sends, writes, finished, base, call, ran,
                   executed, gen, faults, workflow_state, ui, fnvars, ops>>

NextThreads == Next \/ \E t \in ThreadIds : Config(t)

\* one compiled graph and checkpointer, called on two thread ids in any order
SpecThreads == Init /\ [][NextThreads]_vars

----------------------------------------------------------------------------
(* The client: the script of StreamlitApp.run, one action per rerun that    *)
(* ends with the session changed. Every call names st.session_state.thread_id. *)

\* _render_interaction_panel: the panel a rerun renders
Panel ==
    IF workflow_state = "waiting_for_question" \/ ui.interaction_panel_cleared
    THEN "question"
    ELSE IF workflow_state = "waiting_for_feedback" THEN "feedback"
    ELSE "processing"

\* what the user may type into the feedback text box
TypedInputs == {"bad input", "quit", "1"}

\* the stream call is made and raises before any step of the walk: the
\* thread's checkpoint is as it was
StreamRaises(t, kind, input) ==
    /\ ClientCall(t)
    /\ call' = [ call EXCEPT ![t] =
                   [ kind |-> kind, input |-> input, status |-> "raised",
                     messages0 |-> Len(values[t].messages), at |-> pc[t] ] ]
    /\ ran' = [ ran EXCEPT ![t] = NoRuns ]
    /\ executed' = [ executed EXCEPT ![t] = << >> ]
    /\ ops' = ops + 1
    /\ UNCHANGED <<pc, values, interrupt, sends, writes, finished, base, gen, faults,
                   thread_id, fnvars>>

\* _render_question_input: a question is sent and, in the same run,
\* process_initial_question streams it into the graph
SubmitQuestion(question) ==
    /\ Panel = "question"
    /\ ui.pending_feedback = None
    /\ ops < MaxInputs
    /\ Start(thread_id, question)

\* the same, the stream call raising: the except branch of
\* process_initial_question
SubmitQuestionRaises(question) ==
    /\ Panel = "question"
    /\ ui.pending_feedback = None
    /\ ops < MaxInputs
    /\ StreamRaises(thread_id, "start", question)
    /\ workflow_state' = set_completion_state
    /\ ui' = set_completion_flags(set_processing_flags(add_message(ui, "user", question)))

\* _extract_query_suggestions: current_interrupt is an Interrupt object, not a
\* dict, so the list is read from the thread's state
extract_query_suggestions(t) == values[t].query_suggestion

agent_order == << "query_agent_1", "query_agent_2", "query_agent_3" >>

\* recent_suggestions: the last three entries of the list, or all of it
recent_suggestions(qs) ==
    IF Len(qs) > 3 THEN SubSeq(qs, Len(qs) - 2, Len(qs)) ELSE qs

\* latest_suggestions[agent_name]: the loop over the recent entries overwrites
\* the dict entry of a producer, so its last payload stays
latest_suggestions(recent, agent_name) ==
    LET I == { i \in 1..Len(recent) : recent[i][1] = agent_name }
    IN  IF I = {} THEN None
        ELSE Some(recent[CHOOSE i \in I : \A j \in I : j <= i][2])

RECURSIVE display_in_order(_, _)
\* the loop over agent_order: the producers that have an entry, in that order
display_in_order(order, recent) ==
    IF order = << >> THEN << >>
    ELSE (IF latest_suggestions(recent, Head(order)) = None THEN << >>
          ELSE << << Head(order), latest_suggestions(recent, Head(order))[1] >> >>)
         \o display_in_order(Tail(order), recent)

\* a display function that drops the trim to the last three entries
ProcessQuerySuggestionsNoTrim(qs) ==
    IF qs = << >> THEN << >> ELSE display_in_order(agent_order, qs)

\* _process_query_suggestions
process_query_suggestions(qs) ==
    IF qs = << >> THEN << >> ELSE display_in_order(agent_order, recent_suggestions(qs))

RECURSIVE BulletLines(_)
BulletLines(l) == IF l = << >> THEN "" ELSE "* " \o Head(l) \o "\n" \o BulletLines(Tail(l))

RECURSIVE OptionLines(_, _)
OptionLines(suggestions, i) ==
    IF i > Len(suggestions) THEN ""
    ELSE "option " \o ToString(i) \o " - " \o suggestions[i][1] \o "\n"
         \o suggestions[i][2].query \o "\n"
         \o (IF "suggestion" \in DOMAIN suggestions[i][2] /\ suggestions[i][2].suggestion # << >>
             THEN "notes:\n" \o BulletLines(suggestions[i][2].suggestion) ELSE "")
         \o OptionLines(suggestions, i + 1)

\* _add_suggestions_to_messages: the options as one assistant message
add_suggestions_to_messages(u, suggestions) ==
    add_message(u, "assistant", "query suggestions\n" \o OptionLines(suggestions, 1))

\* display_query_suggestions adding the summary without setting the flag
DisplayQuerySuggestionsKeepsFlag(u, suggestions) ==
    IF suggestions = << >>
    THEN [ ui |-> u, shown |-> << >> ]
    ELSE IF ~u.query_suggestions_displayed
    THEN [ ui |-> add_suggestions_to_messages(u, suggestions), shown |-> << >> ]
    ELSE [ ui |-> u, shown |-> suggestions ]

\* display_query_suggestions on the extracted suggestions: the session after
\* it, and the suggestions it renders with the selection buttons. No
\* suggestions: a warning and nothing else. Not yet in the messages: the
\* summary is added, the flag is set and st.rerun() ends the run before
\* anything is rendered.
display_query_suggestions(u, suggestions) ==
    IF suggestions = << >>
    THEN [ ui |-> u, shown |-> << >> ]
    ELSE IF ~u.query_suggestions_displayed
    THEN [ ui |-> [ add_suggestions_to_messages(u, suggestions)
                      EXCEPT !.query_suggestions_displayed = TRUE ],
           shown |-> << >> ]
    ELSE [ ui |-> u, shown |-> suggestions ]

\* the options the feedback panel shows for the session's thread
Displayed == process_query_suggestions(extract_query_suggestions(thread_id))

\* display_query_suggestions on the first rerun after a suspension: the
\* options are added to the messages once, and the script reruns
ShowSuggestions ==
    /\ Panel = "feedback"
    /\ ui.pending_feedback = None
    /\ ui.current_interrupt # None
    /\ Displayed # << >>
    /\ ~ui.query_suggestions_displayed
    /\ ui' = display_query_suggestions(ui, Displayed).ui
    /\ UNCHANGED <<pc, values, interrupt, sends, writes, finished, base, call, ran,
                   executed, gen, faults, thread_id, workflow_state, fnvars, ops>>

\* the controls of the feedback panel are rendered and enabled
FeedbackControls ==
    /\ Panel = "feedback"
    /\ ui.pending_feedback = None
    /\ ui.current_interrupt # None
    /\ Displayed # << >>
    /\ ui.query_suggestions_displayed
    /\ ~ui.buttons_disabled

\* the route the graph takes for an input
RouteOf(user_input) == next_after_feedback([ user_feedback |-> Some(user_input) ])

\* an input is taken while the budget of the model allows the call it causes
WithinBudget(user_input) ==
    /\ ops < MaxInputs
    /\ RouteOf(user_input) = "retry" => FanOutsLeft

\* _render_feedback_input, an option button or the cancel button was clicked
ClickOption(option) ==
    /\ FeedbackControls
    /\ WithinBudget(option)
    /\ workflow_state' = set_processing_state
    /\ ui' = [ set_processing_flags(add_message(ui, "user", SelectionMessage(option)))
                EXCEPT !.buttons_disabled = TRUE, !.feedback_sent = TRUE,
                       !.pending_feedback = Some(option) ]
    /\ UNCHANGED <<pc, values, interrupt, sends, writes, finished, base, call, ran,
                   executed, gen, faults, thread_id, fnvars, ops>>

\* _render_feedback_input, a text was sent from the feedback text box
SubmitFeedback(feedback) ==
    /\ FeedbackControls
    /\ WithinBudget(feedback)
    /\ workflow_state' = set_processing_state
    /\ ui' = [ set_processing_flags(add_message(ui, "user", feedback))
                EXCEPT !.buttons_disabled = TRUE, !.feedback_sent = TRUE,
                       !.pending_feedback = Some(feedback) ]
    /\ UNCHANGED <<pc, values, interrupt, sends, writes, finished, base, call, ran,
                   executed, gen, faults, thread_id, fnvars, ops>>

\* _handle_pending_feedback leaving the input pending
HandlePendingFeedbackKeepsPending ==
    /\ ui.pending_feedback # None
    /\ process_feedback(thread_id, ui.pending_feedback[1])
    /\ UNCHANGED <<workflow_state, ui, fnvars>>

\* _handle_pending_feedback at the start of the rerun: the pending input is
\* taken out of the session and handed to process_feedback
HandlePendingFeedback ==
    /\ ui.pending_feedback # None
    /\ process_feedback(thread_id, ui.pending_feedback[1])
    /\ ui' = [ ui EXCEPT !.pending_feedback = None ]
    /\ UNCHANGED <<workflow_state, fnvars>>

\* the same, the stream call raising: the except branch of process_feedback
HandlePendingFeedbackRaises ==
    /\ ui.pending_feedback # None
    /\ StreamRaises(thread_id, "resume", ui.pending_feedback[1])
    /\ workflow_state' = set_completion_state
    /\ ui' = set_completion_flags([ ui EXCEPT !.pending_feedback = None ])

NextClient ==
    \/ \E question \in Questions : SubmitQuestion(question)
    \/ \E question \in Questions : SubmitQuestionRaises(question)
    \/ ShowSuggestions
    \/ \E option \in OptionButtons : ClickOption(option)
    \/ \E feedback \in TypedInputs : SubmitFeedback(feedback)
    \/ HandlePendingFeedback
    \/ HandlePendingFeedbackRaises
    \/ reset_session
    \/ Walk

\* the session driven through its panels; a rerun with a pending input
\* handles it, and a stream call runs the walk on
SpecClient ==
    /\ Init /\ [][NextClient]_vars
    /\ WF_vars(Walk \/ HandlePendingFeedback \/ HandlePendingFeedbackRaises)

----------------------------------------------------------------------------
(* Vocabulary of the properties *)

Suggestions(t) == values[t].query_suggestion
Transcript(t) == values[t].messages

\* a candidate entry whose query is the placeholder of a failed producer
ErrorTagged(entry) == entry[2].query \in { ErrorQuery(f) : f \in GenFaults }

\* the positions of the entries the latest fan-out of thread t appended
NewPositions(t) == (base[t] + 1)..Len(Suggestions(t))

\* the position of the last entry of producer agent_name, 0 when there is none
LastEntry(qs, agent_name) ==
    LET I == { i \in 1..Len(qs) : qs[i][1] = agent_name }
    IN  IF I = {} THEN 0 ELSE CHOOSE i \in I : \A j \in I : j <= i

\* the stream call in progress or last made on t resumed a suspended thread
\* with an input of S
ResumedWith(t, S) ==
    /\ call[t].kind = "resume"
    /\ call[t].status # "no_tasks"
    /\ call[t].input \in S

SelectorOf(k) == ToString(k)

\* the resume with a selector has been routed and the executor has not run yet
AtExecute(t, k) ==
    /\ ResumedWith(t, {SelectorOf(k)})
    /\ executed[t] = << >>

\* every producer of the fan-out has returned exactly once in this call
AllProducersRan(t) == \A k \in Agents : ran[t][AgentName(k)] = 1

----------------------------------------------------------------------------
(* C1: whenever gateway has dispatched the fan-out, aggregate and           *)
(* wait_user_feedback run only after all three tasks have returned, and at  *)
(* that point query_suggestion holds exactly three entries more than at the *)
(* dispatch, one per producer, whatever the completion order and whether or *)
(* not a producer raised internally.                                        *)
C1_FanOutJoin ==
    \A t \in ThreadIds :
        (pc[t] \in {"aggregate", "wait_user_feedback"} \/ ran[t]["aggregate"] > 0) =>
            /\ AllProducersRan(t)
            /\ ran[t]["gateway"] = 1
            /\ Len(Suggestions(t)) = base[t] + 3
            /\ \A k \in Agents :
                 Cardinality({ i \in NewPositions(t) :
                                 Suggestions(t)[i][1] = AgentName(k) }) = 1

\* the second fan-out of a thread has joined, one of its entries error-tagged
C1_Witness ==
    \E t \in ThreadIds :
        /\ pc[t] = "aggregate"
        /\ base[t] = 3
        /\ \E i \in NewPositions(t) : ErrorTagged(Suggestions(t)[i])
        /\ \E i \in NewPositions(t) : ~ErrorTagged(Suggestions(t)[i])

(* C2: for each k in {1,2,3}, resuming a suspended thread with "k" sets     *)
(* selected_query to the query of an entry of producer query_agent_k and    *)
(* routes to execute_query, whatever the other two producers returned.      *)
C2_SelectorRouting ==
    \A t \in ThreadIds : \A k \in Agents :
        AtExecute(t, k) =>
            /\ pc[t] = "execute_query"
            /\ values[t].user_feedback = Some(SelectorOf(k))
            /\ \E i \in 1..Len(Suggestions(t)) :
                 /\ Suggestions(t)[i][1] = AgentName(k)
                 /\ values[t].selected_query = Some(Suggestions(t)[i][2].query)

\* selector "2" after a fan-out in which producers 1 and 3 raised
C2_Witness ==
    \E t \in ThreadIds :
        /\ AtExecute(t, 2)
        /\ pc[t] = "execute_query"
        /\ Len(Suggestions(t)) = 3
        /\ \A i \in 1..3 :
             ErrorTagged(Suggestions(t)[i]) <=> Suggestions(t)[i][1] # "query_agent_2"

(* C3: when query_suggestion holds several entries of one producer, the     *)
(* entry that counts is the most recent: resuming with selector "k" sets    *)
(* selected_query to the query of the last-appended query_agent_k entry.    *)
C3_MostRecentWins ==
    \A t \in ThreadIds : \A k \in Agents :
        (AtExecute(t, k) /\ pc[t] = "execute_query") =>
            LET i == LastEntry(Suggestions(t), AgentName(k))
            IN  /\ i # 0
                /\ values[t].selected_query = Some(Suggestions(t)[i][2].query)

\* the inputs that are neither a selector nor a cancel keyword
RetryInputs == ResumeInputs \ (Selectors \cup CancelKeywords)

\* what holds of a thread during and after a resume with a retry input
C4_RetryState(t) ==
    ResumedWith(t, RetryInputs) =>
        /\ values[t].user_feedback = Some(call[t].input)
        /\ pc[t] \in {"gateway", "agents", "aggregate", "wait_user_feedback", "suspended"}
        /\ executed[t] = << >>
        /\ \A n \in {"execute_query", "end_on_success", "end_on_error", "end_on_cancel"} :
             ran[t][n] = 0
        /\ pc[t] = "agents" =>
             \A k \in Agents :
                 sends[t][k] = [ user_request |-> values[t].user_request,
                                 user_feedback |-> Some(call[t].input) ]
        /\ pc[t] = "suspended" =>
             /\ call[t].status = "suspended"
             /\ ran[t]["gateway"] = 1
             /\ AllProducersRan(t)
             /\ Len(Suggestions(t)) = base[t] + 3
             /\ interrupt[t] = Some(InterruptPayload(values[t]))
        /\ pc[t] # "suspended" => call[t].status = "running"

(* C4: resuming a suspended thread with an input that is neither a selector *)
(* nor a cancel keyword sets user_feedback to that input, routes back to    *)
(* gateway, starts a new fan-out in which all three producers receive that  *)
(* feedback with the unchanged user_request, and leaves the thread          *)
(* suspended again at wait_user_feedback with no query executed.            *)
C4_RetryRegenerates ==
    /\ [](\A t \in ThreadIds : C4_RetryState(t))
    /\ [][\A t \in ThreadIds :
            call'[t].kind = "resume" => values'[t].user_request = values[t].user_request]_vars

\* a thread suspended again after the feedback "Cancel", which is no cancel keyword
C4_Witness ==
    \E t \in ThreadIds :
        /\ ResumedWith(t, {"Cancel"})
        /\ pc[t] = "suspended"
        /\ gen[t] = 2

(* C5: resuming a suspended thread with a cancel keyword (stop, cancel,     *)
(* exit, quit) routes to end_on_cancel and completes the thread;            *)
(* execute_query does not run for that resume, query_result stays null, and *)
(* the cancellation acts only at this routing point, with no producer task  *)
(* of a fan-out in flight.                                                  *)
C5_CancelRoute ==
    \A t \in ThreadIds :
        /\ ResumedWith(t, CancelKeywords) =>
             /\ pc[t] \in {"end_on_cancel", "completed"}
             /\ ran[t]["execute_query"] = 0
             /\ ran[t]["gateway"] = 0
             /\ executed[t] = << >>
             /\ values[t].query_result = None
             /\ pc[t] = "completed" =>
                  /\ call[t].status = "completed"
                  /\ StateNext(t) = << >>
                  /\ ran[t]["end_on_cancel"] = 1
                  /\ Len(Transcript(t)) = call[t].messages0 + 1
                  /\ Transcript(t)[Len(Transcript(t))] = MsgCancel
        /\ pc[t] = "end_on_cancel" =>
             /\ ResumedWith(t, CancelKeywords)
             /\ sends[t] = NoTasks /\ writes[t] = NoTasks /\ finished[t] = << >>
        /\ pc[t] = "agents" => ~ResumedWith(t, CancelKeywords)

\* a thread completed by "quit" after one retry
C5_Witness ==
    \E t \in ThreadIds :
        /\ ResumedWith(t, {"quit"})
        /\ pc[t] = "completed"
        /\ gen[t] = 2

\* the executor's invocation of the current call succeeded / raised
ExecutorSucceeded(t) == executed[t] # << >> /\ executed[t][1].outcome.ok
ExecutorRaised(t) == executed[t] # << >> /\ ~executed[t][1].outcome.ok

(* C6: when the user resumes with a selector and the executor succeeds on   *)
(* the selected query, the thread ends at end_on_success and never at       *)
(* end_on_error, error_message is null, and the transcript gains a          *)
(* completion message followed by a message with the execution result.      *)
C6_SuccessPath ==
    \A t \in ThreadIds :
        ExecutorSucceeded(t) =>
            /\ ResumedWith(t, Selectors)
            /\ Len(executed[t]) = 1
            /\ executed[t][1].query = values[t].selected_query
            /\ values[t].error_message = None
            /\ values[t].query_result = Some(executed[t][1].outcome.result)
            /\ pc[t] \in {"end_on_success", "completed"}
            /\ ran[t]["end_on_error"] = 0
            /\ pc[t] = "completed" =>
                 /\ call[t].status = "completed"
                 /\ ran[t]["end_on_success"] = 1
                 /\ Len(Transcript(t)) >= call[t].messages0 + 2
                 /\ Transcript(t)[call[t].messages0 + 1] = MsgDone
                 /\ Transcript(t)[call[t].messages0 + 2] = executed[t][1].outcome.result

\* start, three candidates, resume with "1", the executor succeeds
C6_Witness ==
    \E t \in ThreadIds :
        /\ ResumedWith(t, {"1"})
        /\ ExecutorSucceeded(t)
        /\ pc[t] = "completed"
        /\ Len(Suggestions(t)) = 3
        /\ Len(Transcript(t)) = 2

(* C7: when the executor raises on the selected query, the fault becomes    *)
(* data: error_message is the fault text, query_result is null, the walk    *)
(* goes to end_on_error and never to end_on_success, the last transcript    *)
(* entry carries the fault text, and the call ends as completed.            *)
C7_ExecutionFault ==
    \A t \in ThreadIds :
        ExecutorRaised(t) =>
            /\ Len(executed[t]) = 1
            /\ values[t].error_message = Some(executed[t][1].outcome.fault)
            /\ values[t].query_result = None
            /\ pc[t] \in {"end_on_error", "completed"}
            /\ ran[t]["end_on_success"] = 0
            /\ call[t].status \in {"running", "completed"}
            /\ pc[t] = "completed" =>
                 /\ call[t].status = "completed"
                 /\ ran[t]["end_on_error"] = 1
                 /\ Len(Transcript(t)) = call[t].messages0 + 2
                 /\ Transcript(t)[call[t].messages0 + 1] = MsgError
                 /\ Transcript(t)[call[t].messages0 + 2] = executed[t][1].outcome.fault

\* the executor raised an exception without text and the thread completed
C7_Witness ==
    \E t \in ThreadIds :
        /\ ExecutorRaised(t)
        /\ executed[t][1].outcome.fault = ""
        /\ pc[t] = "completed"

(* C8: if one of the three producers raises during a fan-out, only that     *)
(* producer's entry is an error-tagged placeholder, the thread still        *)
(* suspends, and selecting the selector of a producer that succeeded        *)
(* executes a real query of that producer, not a placeholder.               *)
C8_FaultIsolation ==
    \A t \in ThreadIds : \A k \in Agents :
        ( /\ AtExecute(t, k)
          /\ pc[t] = "execute_query"
          /\ Cardinality({ i \in NewPositions(t) : ErrorTagged(Suggestions(t)[i]) }) = 1
          /\ \E i \in NewPositions(t) :
               Suggestions(t)[i][1] = AgentName(k) /\ ~ErrorTagged(Suggestions(t)[i]) )
        => \E i \in 1..Len(Suggestions(t)) :
               /\ Suggestions(t)[i][1] = AgentName(k)
               /\ ~ErrorTagged(Suggestions(t)[i])
               /\ values[t].selected_query = Some(Suggestions(t)[i][2].query)

(* C9: once a thread has reached a terminal node its checkpoint is          *)
(* completed, with no pending node, and every further resume call on that   *)
(* thread fails (NotSuspendedError) without running any node.               *)
C9_CompletedRejectsResume ==
    \A t \in ThreadIds :
        /\ pc[t] = "completed" => (StateNext(t) = << >> /\ interrupt[t] = None)
        /\ (pc[t] = "completed" /\ call[t].kind = "resume" /\ ran[t] = NoRuns) =>
             call[t].status = "raised"

(* C11: calling start (a stream call with an initial state) on a thread     *)
(* whose checkpoint is suspended at wait_user_feedback fails, the call ends *)
(* as raised (DuplicateThreadError), and the checkpoint is left unchanged:  *)
(* its values, its pending node and its interrupt payload.                  *)
C11_StartOnSuspendedFails ==
    [][\A t \in ThreadIds :
          (pc[t] = "suspended" /\ ops' # ops /\ call'[t].kind = "start") =>
              /\ call'[t].status = "raised"
              /\ values'[t] = values[t]
              /\ StateNext(t)' = StateNext(t)
              /\ interrupt'[t] = interrupt[t]]_vars

(* C12: when start is called on a thread whose previous run has completed,  *)
(* the state is created from the supplied initial state: at the first       *)
(* suspension of the new run query_suggestion holds exactly the three       *)
(* entries of the new request's fan-out and none of an earlier request.     *)
C12_StartAfterCompletion ==
    \A t \in ThreadIds :
        (call[t].kind = "start" /\ call[t].at = "completed" /\ pc[t] = "suspended") =>
            /\ Len(Suggestions(t)) = 3
            /\ base[t] = 0

\* the nodes behind the suspend point
AfterSuspendNodes == {"execute_query", "end_on_success", "end_on_error", "end_on_cancel"}

\* what holds of a thread with respect to its suspend point
C13_SuspendState(t) ==
    /\ pc[t] = "suspended" <=> call[t].status = "suspended"
    /\ pc[t] = "suspended" =>
         /\ call[t].kind = "start" \/ ResumedWith(t, RetryInputs)
         /\ ran[t]["wait_user_feedback"] >= 1
         /\ StateNext(t) = << "wait_user_feedback" >>
         /\ interrupt[t] # None
         /\ interrupt[t][1].action = "wait_user_feedback"
         /\ interrupt[t][1].query_suggestions = Suggestions(t)
         /\ Len(Suggestions(t)) >= 3
    /\ (call[t].kind = "start" \/ ResumedWith(t, RetryInputs)) =>
         /\ pc[t] \in {"gateway", "agents", "aggregate", "wait_user_feedback", "suspended"}
         /\ \A n \in AfterSuspendNodes : ran[t][n] = 0
         /\ executed[t] = << >>

(* C13: suspension happens only at wait_user_feedback: after a start, and   *)
(* after every resume that routes to retry, the walk halts at               *)
(* wait_user_feedback with a prompt payload carrying the candidates, and    *)
(* neither execute_query nor a terminal node runs on the thread (nothing of *)
(* the thread moves) until the next call supplies an input.                 *)
C13_SuspendOnlyAtFeedback ==
    /\ [](\A t \in ThreadIds : C13_SuspendState(t))
    /\ [][\A t \in ThreadIds :
            (pc[t] = "suspended" /\ ops' = ops) =>
                /\ pc'[t] = pc[t] /\ values'[t] = values[t]
                /\ ran'[t] = ran[t] /\ executed'[t] = executed[t]
                /\ interrupt'[t] = interrupt[t]]_vars
    /\ \A t \in ThreadIds :
         (call[t].status = "running" /\ (call[t].kind = "start" \/ ResumedWith(t, RetryInputs)))
             ~> pc[t] = "suspended"

\* suspended again after the retry feedback "bad input", the prompt carrying
\* the candidates of both fan-outs
C13_Witness ==
    \E t \in ThreadIds :
        /\ ResumedWith(t, {"bad input"})
        /\ pc[t] = "suspended"
        /\ Len(interrupt[t][1].query_suggestions) = 6

\* the step in which a call resumes thread t, suspended at wait_user_feedback
ResumeStep(t) == pc[t] = "suspended" /\ ops' # ops /\ call'[t].kind = "resume"

(* C14: the state a resumed thread continues with is the state checkpointed *)
(* at its suspension, changed only by the injected input: the resume step   *)
(* at wait_user_feedback sets user_feedback to the input, changes           *)
(* selected_query only for a selector and refactoring_suggestion only for   *)
(* selector "3", and leaves user_request, query_suggestion, messages,       *)
(* query_result and error_message as they were when the thread suspended.   *)
C14_ResumeFrame ==
    [][\A t \in ThreadIds :
          ResumeStep(t) =>
              /\ \A f \in {"user_request", "query_suggestion", "messages",
                            "query_result", "error_message"} :
                   values'[t][f] = values[t][f]
              /\ values'[t].user_feedback = Some(call'[t].input)
              /\ call'[t].input # "3" =>
                   values'[t].refactoring_suggestion = values[t].refactoring_suggestion
              /\ call'[t].input \notin Selectors =>
                   values'[t].selected_query = values[t].selected_query]_vars

\* resumed with "3": the suggestion of producer 3 has been stored
C14_Witness ==
    \E t \in ThreadIds :
        /\ AtExecute(t, 3)
        /\ pc[t] = "execute_query"
        /\ values[t].refactoring_suggestion = Some(<< "add index" >>)
        /\ Len(Suggestions(t)) = 3

IsPrefix(a, b) == Len(a) <= Len(b) /\ SubSeq(b, 1, Len(a)) = a

(* C15: query_suggestion is append-only on a thread: across any sequence of *)
(* start and resume calls every earlier value is a prefix of every later    *)
(* one; the empty list gateway writes on each pass removes nothing, and the *)
(* length grows by exactly three per fan-out.                               *)
C15_AppendOnly ==
    /\ [][\A t \in ThreadIds :
            /\ IsPrefix(Suggestions(t), Suggestions(t)')
            /\ (pc[t] = "gateway" /\ pc'[t] = "agents") => Suggestions(t)' = Suggestions(t)
            /\ (pc[t] = "agents" /\ pc'[t] = "aggregate") =>
                 Len(Suggestions(t)') = Len(Suggestions(t)) + 3]_vars
    /\ [](\A t \in ThreadIds :
            Len(Suggestions(t)) = 3 * (IF pc[t] = "agents" THEN gen[t] - 1 ELSE gen[t]))

\* a second request was started on a completed thread: six entries
C15_Witness ==
    \E t \in ThreadIds :
        /\ call[t].kind = "start" /\ call[t].at = "completed"
        /\ pc[t] = "suspended"
        /\ Len(Suggestions(t)) = 6

\* everything the graph and its checkpointer hold of thread t
OfThread(t) ==
    << pc[t], values[t], interrupt[t], sends[t], writes[t], finished[t], base[t],
       call[t], ran[t], executed[t], gen[t] >>

\* the state of thread t is what its own calls produce: nothing before its
\* first call, and afterwards three candidates per fan-out of its own, the
\* i-th of them an answer to the fan-out of t that appended it
OwnState(t) ==
    /\ call[t].kind = "none" => (pc[t] = "none" /\ values[t] = EmptyState /\ gen[t] = 0)
    /\ Len(Suggestions(t)) = 3 * (IF pc[t] = "agents" THEN gen[t] - 1 ELSE gen[t])
    /\ \A i \in 1..Len(Suggestions(t)) :
         \/ ErrorTagged(Suggestions(t)[i])
         \/ \E k \in Agents :
              /\ Suggestions(t)[i][1] = AgentName(k)
              /\ Suggestions(t)[i][2].query = ChainQuery(k, ((i - 1) \div 3) + 1)
    /\ pc[t] = "suspended" <=> call[t].status = "suspended"
    /\ pc[t] = "completed" <=> call[t].status \in {"completed", "no_tasks"}
    /\ Len(Transcript(t)) >= call[t].messages0

(* C16: threads are isolated: for any interleaving of start and resume      *)
(* calls on two thread ids that share one compiled graph and checkpointer,  *)
(* a step of one thread changes nothing of the other, and each thread's     *)
(* state, suspension status and transcript are what its own calls produce.  *)
C16_ThreadIsolation ==
    /\ [][\A t \in ThreadIds : \A u \in ThreadIds \ {t} :
            OfThread(t)' # OfThread(t) => OfThread(u)' = OfThread(u)]_vars
    /\ [](\A t \in ThreadIds : OwnState(t))

\* t1 was resumed to its end while t2 stayed suspended at its first prompt
C16_Witness ==
    /\ pc["t1"] = "completed" /\ call["t1"].kind = "resume"
    /\ pc["t2"] = "suspended" /\ call["t2"].kind = "start"
    /\ workflow_state = "waiting_for_question"
    /\ Len(Suggestions("t2")) = 3 /\ Transcript("t2") = << >>
    /\ Len(Transcript("t1")) >= 1

TerminalNodes == {"end_on_success", "end_on_error", "end_on_cancel"}

\* the terminal nodes that ran during the call in progress or last made on t
TerminalsRan(t) == { n \in TerminalNodes : ran[t][n] > 0 }

\* no call on t has been aborted, a returned call has left t suspended or
\* completed, and a call runs at most one terminal node, once
C17_NeverAborted(t) ==
    /\ call[t].status \in {"none", "running", "suspended", "completed", "no_tasks"}
    /\ (call[t].kind # "none" /\ call[t].status # "running") =>
         pc[t] \in {"suspended", "completed"}
    /\ Cardinality(TerminalsRan(t)) <= 1
    /\ \A n \in TerminalNodes : ran[t][n] <= 1
    /\ ExecutorRaised(t) => TerminalsRan(t) \subseteq {"end_on_error"}
    /\ (ResumedWith(t, Selectors \cup CancelKeywords) /\ pc[t] = "completed") =>
         Cardinality(TerminalsRan(t)) = 1

(* C17: no node fault aborts a thread: under any combination of generator   *)
(* and executor faults a started thread is, whenever no call runs on it,    *)
(* suspended at wait_user_feedback or completed; every call comes to that   *)
(* point, and once the user supplies a selector or a cancel keyword the     *)
(* walk reaches exactly one of end_on_success, end_on_error, end_on_cancel, *)
(* an executor fault being reported through end_on_error.                   *)
C17_NoFaultAborts ==
    /\ [](\A t \in ThreadIds : C17_NeverAborted(t))
    /\ \A t \in ThreadIds :
         (call[t].status = "running") ~> (pc[t] \in {"suspended", "completed"})
    /\ \A t \in ThreadIds :
         (call[t].status = "running" /\ ResumedWith(t, Selectors \cup CancelKeywords))
             ~> (pc[t] = "completed" /\ Cardinality(TerminalsRan(t)) = 1)
    /\ \A t \in ThreadIds :
         ExecutorRaised(t) ~> (pc[t] = "completed" /\ TerminalsRan(t) = {"end_on_error"})

\* two producers raised, the user chose a placeholder, the executor raised on
\* it, and the thread completed through end_on_error
C17_Witness ==
    \E t \in ThreadIds :
        /\ pc[t] = "completed"
        /\ ExecutorRaised(t)
        /\ TerminalsRan(t) = {"end_on_error"}
        /\ Cardinality({ i \in 1..Len(Suggestions(t)) : ErrorTagged(Suggestions(t)[i]) }) = 2
        /\ \E f \in GenFaults : values[t].selected_query = Some(ErrorQuery(f))

(* C18: the engine performs no retries of its own: each pass through        *)
(* gateway invokes each of the three generators exactly once, each resume   *)
(* with a selector invokes the executor exactly once, also when the         *)
(* invocation fails, and a resume regenerates only when its input routes to *)
(* retry.                                                                   *)
C18_NoRetries ==
    \A t \in ThreadIds :
        /\ ran[t]["gateway"] <= 1
        /\ \A k \in Agents : ran[t][AgentName(k)] <= ran[t]["gateway"]
        /\ (ran[t]["gateway"] = 1 /\ pc[t] \notin {"agents"}) => AllProducersRan(t)
        /\ ran[t]["execute_query"] <= 1
        /\ Len(executed[t]) = ran[t]["execute_query"]
        /\ (ResumedWith(t, Selectors) /\ pc[t] # "execute_query") =>
             /\ Len(executed[t]) = 1
             /\ ran[t]["gateway"] = 0
             /\ \A k \in Agents : ran[t][AgentName(k)] = 0
        /\ (call[t].kind = "resume" /\ ran[t]["gateway"] > 0) =>
             call[t].input \in RetryInputs
        /\ call[t].kind = "start" => executed[t] = << >>

\* the executor raised "db down" once and the thread completed
C18_Witness ==
    \E t \in ThreadIds :
        /\ pc[t] = "completed"
        /\ ExecutorRaised(t)
        /\ executed[t][1].outcome.fault = "db down"
        /\ Len(executed[t]) = 1
        /\ faults = 0

(* C19: when a start or resume call has returned without raising, the       *)
(* thread's stored checkpoint already shows the outcome: get_state reports  *)
(* wait_user_feedback as pending exactly when the walk suspended and no     *)
(* pending node exactly when a terminal node was reached, and the client    *)
(* has set workflow_state to waiting_for_feedback in the first case and to  *)
(* waiting_for_question in the second.                                      *)
C19_CheckpointVisible ==
    LET t == thread_id
    IN  /\ call[t].status = "running" => workflow_state = "processing"
        /\ (call[t].kind # "none" /\ call[t].status # "running") =>
             /\ StateNext(t) = << "wait_user_feedback" >> <=> call[t].status = "suspended"
             /\ StateNext(t) = << >> <=> call[t].status \in {"completed", "no_tasks"}
             /\ call[t].status = "suspended" =>
                  /\ ran[t]["wait_user_feedback"] >= 1
                  /\ TerminalsRan(t) = {}
                  /\ workflow_state = "waiting_for_feedback"
             /\ call[t].status = "completed" =>
                  /\ Cardinality(TerminalsRan(t)) = 1
                  /\ workflow_state = "waiting_for_question"
             /\ call[t].status = "no_tasks" => workflow_state = "waiting_for_question"

\* a resume with feedback has returned with the thread suspended again
C19_Witness ==
    /\ call[thread_id].kind = "resume"
    /\ call[thread_id].status = "suspended"
    /\ workflow_state = "waiting_for_feedback"

\* the threads of the conversations the session has discarded
Discarded(t) ==
    \E i, j \in 1..Len(ThreadOrder) :
        ThreadOrder[i] = t /\ ThreadOrder[j] = thread_id /\ i < j

(* C20: when the client resets the session (reset_session), the checkpoint  *)
(* of the discarded thread is deleted from the checkpoint store: a later    *)
(* load of the old thread id finds nothing.                                 *)
C20_ResetDeletesCheckpoint ==
    \A t \in ThreadIds :
        Discarded(t) =>
            /\ pc[t] = "none"
            /\ values[t] = EmptyState
            /\ interrupt[t] = None

----------------------------------------------------------------------------
\* the query the feedback panel shows as option k, << >> when it shows no
\* such option
DisplayedQuery(k) ==
    IF k <= Len(Displayed) /\ Displayed[k][1] = AgentName(k)
    THEN Some(Displayed[k][2].query)
    ELSE None

(* C21: the query the client displays as option k (the latest entry of      *)
(* producer k among the last three candidate entries) is the query          *)
(* execute_query receives when the user clicks option k, also after retry   *)
(* cycles and after earlier questions on the same thread id.                *)
C21_DisplayedIsExecuted ==
    \A k \in Agents :
        (AtExecute(thread_id, k) /\ pc[thread_id] = "execute_query") =>
            /\ DisplayedQuery(k) # None
            /\ values[thread_id].selected_query = DisplayedQuery(k)

----------------------------------------------------------------------------
\* the queries of the candidate entries of producer k
QueriesOf(t, k) ==
    { Suggestions(t)[i][2].query :
        i \in { j \in 1..Len(Suggestions(t)) : Suggestions(t)[j][1] = AgentName(k) } }

(* C22: execute_query never runs with a null selected_query: whenever the   *)
(* walk is at execute_query, user_feedback is one of "1", "2", "3" and      *)
(* selected_query is the non-null query of an existing entry of the         *)
(* matching producer, and that is the query the executor receives.          *)
(* Conversely selected_query is null at every suspension and on the retry   *)
(* and cancel routes.                                                       *)
C22_SelectedQueryDefined ==
    \A t \in ThreadIds :
        /\ pc[t] = "execute_query" =>
             \E k \in Agents :
                 /\ values[t].user_feedback = Some(SelectorOf(k))
                 /\ values[t].selected_query # None
                 /\ values[t].selected_query[1] \in QueriesOf(t, k)
        /\ \A i \in 1..Len(executed[t]) : executed[t][i].query # None
        /\ pc[t] = "suspended" => values[t].selected_query = None
        /\ ResumedWith(t, ResumeInputs \ Selectors) =>
             /\ values[t].selected_query = None
             /\ executed[t] = << >>

\* a selector resumed a thread that had been through a retry cycle, and the
\* walk stands at execute_query
C22_Witness ==
    \E t \in ThreadIds :
        /\ pc[t] = "execute_query"
        /\ AtExecute(t, 3)
        /\ Len(Suggestions(t)) = 6
        /\ values[t].selected_query # None

----------------------------------------------------------------------------
\* the four fields gateway resets
ResetFields == {"selected_query", "refactoring_suggestion", "query_result",
                "error_message"}

\* the step of thread t is a pass through the node gateway
GatewayStep(t) == ran'[t]["gateway"] = ran[t]["gateway"] + 1

(* C23: every pass through gateway leaves selected_query,                   *)
(* refactoring_suggestion, query_result and error_message null and does not *)
(* change user_request and user_feedback; the four fields are null at every *)
(* suspension, whatever earlier cycles or earlier runs left, so the walk    *)
(* stands at end_on_success only when the executor succeeded in the current *)
(* call and at end_on_error only when it raised in the current call.        *)
C23_GatewayResets ==
    /\ [][ \A t \in ThreadIds :
             GatewayStep(t) =>
                 /\ \A f \in ResetFields : values'[t][f] = None
                 /\ values'[t].user_request = values[t].user_request
                 /\ values'[t].user_feedback = values[t].user_feedback ]_vars
    /\ [] \A t \in ThreadIds :
             /\ pc[t] = "suspended" => \A f \in ResetFields : values[t][f] = None
             /\ pc[t] = "end_on_success" =>
                    ExecutorSucceeded(t) /\ values[t].error_message = None
             /\ pc[t] = "end_on_error" =>
                    ExecutorRaised(t) /\ values[t].query_result = None

\* a thread is suspended in its second run; its first run ended with an
\* execution
C23_Witness ==
    \E t \in ThreadIds :
        /\ pc[t] = "suspended"
        /\ call[t].kind = "start"
        /\ ran[t]["gateway"] = 1
        /\ Len(Transcript(t)) >= 2
        /\ Len(Suggestions(t)) = 6
        /\ \A f \in ResetFields : values[t][f] = None

----------------------------------------------------------------------------
\* the messages the call in progress or last made on t has appended
Appended(t) == SubSeq(Transcript(t), call[t].messages0 + 1, Len(Transcript(t)))

\* the suggestion list of the entry of producer 3 that a selector "3" selects
SelectedSuggestion(t) == find_suggestion(values[t], AgentName(3))

\* the call on t has ended at end_on_success
EndedOnSuccess(t) ==
    /\ pc[t] = "completed"
    /\ call[t].status = "completed"
    /\ ran[t]["end_on_success"] = 1

(* C24: on the success terminal the transcript gains a third message, the   *)
(* refactoring suggestions, exactly when the user selected "3" and the      *)
(* selected entry of producer 3 has a non-empty suggestion list; after "1"  *)
(* or "2" refactoring_suggestion is null and exactly two messages are       *)
(* appended, also when "3" was selected in an earlier run on the thread.    *)
C24_SuggestionMessage ==
    \A t \in ThreadIds :
        EndedOnSuccess(t) =>
            /\ Len(Appended(t)) \in {2, 3}
            /\ Len(Appended(t)) = 3 <=>
                   (ResumedWith(t, {"3"}) /\ SelectedSuggestion(t) # << >>)
            /\ Len(Appended(t)) = 3 =>
                   /\ values[t].refactoring_suggestion = Some(SelectedSuggestion(t))
                   /\ Appended(t)[3] = StrList(SelectedSuggestion(t))
            /\ ResumedWith(t, {"1", "2"}) =>
                   /\ values[t].refactoring_suggestion = None
                   /\ Len(Appended(t)) = 2

\* option "1" has succeeded on a thread whose earlier run ended with the
\* three messages of a selected option "3"
C24_Witness ==
    \E t \in ThreadIds :
        /\ EndedOnSuccess(t)
        /\ ResumedWith(t, {"1"})
        /\ call[t].messages0 = 3
        /\ Len(Transcript(t)) = 5
        /\ Transcript(t)[3] = StrList(<<"add index">>)

----------------------------------------------------------------------------
\* the states Validator.validate_workflow_state accepts
valid_states == {"waiting_for_question", "processing", "waiting_for_feedback"}

(* C25: after any sequence of client events (question submitted, option     *)
(* clicked, feedback submitted, session reset, engine call succeeding or    *)
(* raising) the client's workflow_state is one of 'waiting_for_question',   *)
(* 'processing', 'waiting_for_feedback'.                                    *)
C25_ValidWorkflowState == workflow_state \in valid_states

\* the session has been reset, and on the new thread a question was answered
\* with candidates, an option was clicked and the resume raised
C25_Witness ==
    /\ thread_id = ThreadOrder[2]
    /\ call[thread_id].kind = "resume"
    /\ call[thread_id].status = "raised"
    /\ call[thread_id].input \in Selectors
    /\ workflow_state = "waiting_for_question"

(* C26: a suspended thread can always be answered from the client: whenever *)
(* a rerun starts with workflow_state 'waiting_for_feedback',               *)
(* interaction_panel_cleared, buttons_disabled and feedback_sent are false  *)
(* and current_interrupt holds the data of the latest suspension of the     *)
(* session's thread, so the feedback panel (not the question panel) is      *)
(* rendered, with the three candidates and enabled controls.                *)
C26_FeedbackPanelRendered ==
    workflow_state = "waiting_for_feedback" =>
        /\ NoCallInProgress
        /\ pc[thread_id] = "suspended"
        /\ ~ui.interaction_panel_cleared
        /\ ~ui.buttons_disabled
        /\ ~ui.feedback_sent
        /\ ui.pending_feedback = None
        /\ interrupt[thread_id] # None
        /\ ui.current_interrupt = Some(extract_interrupt_data(interrupt[thread_id]))
        /\ ui.current_interrupt[1].value = InterruptPayload(values[thread_id])
        /\ Panel = "feedback"
        /\ Len(Displayed) = 3

\* the thread is suspended again after a retry that was typed into the
\* feedback panel, and the candidates of the retry have been shown
C26_Witness ==
    /\ workflow_state = "waiting_for_feedback"
    /\ call[thread_id].kind = "resume"
    /\ call[thread_id].input = "bad input"
    /\ ui.query_suggestions_displayed
    /\ Len(Suggestions(thread_id)) = 6
    /\ FeedbackControls

----------------------------------------------------------------------------
\* the step makes a stream call that resumes the session's thread
ResumeCall ==
    /\ ops' = ops + 1
    /\ call'[thread_id].kind = "resume"

\* the step is an input at the feedback panel
PanelInput == ui.pending_feedback = None /\ ui'.pending_feedback # None

\* a resume call of the session's thread is in progress
Resuming == ~NoCallInProgress /\ call[thread_id].kind = "resume"

(* C27: each input submitted at the feedback panel (option button, cancel   *)
(* button or feedback text) causes exactly one resume call: the input makes *)
(* no call itself, the next step is the one resume call with that input,    *)
(* and no resume call is made without a pending input. pending_feedback is  *)
(* non-null only while workflow_state is 'processing' and is cleared before *)
(* the resume is issued; the controls are disabled from the click until the *)
(* next suspension or completion; and a rerun that begins in 'processing'   *)
(* always ends in 'waiting_for_feedback' or 'waiting_for_question'.         *)
C27_OneResumePerInput ==
    /\ [] /\ ui.pending_feedback # None =>
                /\ workflow_state = "processing"
                /\ NoCallInProgress
                /\ pc[thread_id] = "suspended"
          /\ (ui.pending_feedback # None \/ Resuming) =>
                /\ workflow_state = "processing"
                /\ ui.buttons_disabled
                /\ ui.feedback_sent
    /\ [][ /\ PanelInput => UNCHANGED <<ops, call, pc, values>>
           /\ ui.pending_feedback # None =>
                /\ ResumeCall
                /\ call'[thread_id].input = ui.pending_feedback[1]
                /\ ui'.pending_feedback = None
           /\ ResumeCall => ui.pending_feedback # None ]_vars
    /\ (workflow_state = "processing") ~>
           (workflow_state \in {"waiting_for_feedback", "waiting_for_question"})

\* the cancel button was clicked on a thread suspended again after a retry;
\* the input is pending and its resume has not been made yet
C27_Witness ==
    /\ ui.pending_feedback = Some("cancel")
    /\ call[thread_id].kind = "resume"
    /\ call[thread_id].status = "suspended"
    /\ workflow_state = "processing"

----------------------------------------------------------------------------
\* the step is a stream call of the session's thread that raises
RaisingCall ==
    /\ ops' = ops + 1
    /\ call'[thread_id].status = "raised"

\* where the except branches of the controller leave the client
AfterRaise(w, u) ==
    /\ w = "waiting_for_question"
    /\ u.interaction_panel_cleared
    /\ ~u.buttons_disabled
    /\ u.pending_feedback = None

(* C28: when the engine call inside process_initial_question or             *)
(* process_feedback raises, the controller does not propagate the           *)
(* exception: the call ends as raised and the client is left in             *)
(* workflow_state 'waiting_for_question' with interaction_panel_cleared     *)
(* true, the buttons enabled and pending_feedback null, on the same         *)
(* thread_id, at the question panel.                                        *)
C28_RaiseHandled ==
    /\ [][ RaisingCall =>
             /\ AfterRaise(workflow_state', ui')
             /\ thread_id' = thread_id ]_vars
    /\ [] (call[thread_id].status = "raised" =>
             /\ AfterRaise(workflow_state, ui)
             /\ NoCallInProgress
             /\ Panel = "question")

\* the resume of a clicked option has raised: the thread is still suspended
\* and the client shows the question panel
C28_Witness ==
    /\ call[thread_id].kind = "resume"
    /\ call[thread_id].status = "raised"
    /\ call[thread_id].input = "2"
    /\ pc[thread_id] = "suspended"
    /\ AfterRaise(workflow_state, ui)

----------------------------------------------------------------------------
\* the step is a reset of the session
ResetStep == thread_id' # thread_id

\* the checkpoint store of the agent instance: every thread's checkpoint
Checkpoints == <<pc, values, interrupt, sends, writes, finished, base>>

(* C29: reset_session puts the client into its initial state under a fresh  *)
(* thread id: afterwards thread_id differs from every earlier one, messages *)
(* is empty, current_interrupt and pending_feedback are null,               *)
(* workflow_state is 'waiting_for_question' and all UI flags are false,     *)
(* while the agent instance with the checkpoints of all threads is left     *)
(* unchanged; from then on no stream call is issued against the old thread  *)
(* id and its checkpoint stays as it was.                                   *)
C29_ResetSession ==
    /\ [][ ResetStep =>
             /\ thread_id' # thread_id
             /\ ~Discarded(thread_id')
             /\ pc[thread_id'] = "none" /\ call[thread_id'] = NoCall
             /\ \E t \in ThreadIds : t = thread_id /\ Discarded(t)'
             /\ ui'.messages = << >>
             /\ ui'.current_interrupt = None
             /\ ui'.pending_feedback = None
             /\ workflow_state' = "waiting_for_question"
             /\ ~ui'.buttons_disabled
             /\ ~ui'.query_suggestions_displayed
             /\ ~ui'.interaction_panel_cleared
             /\ ~ui'.feedback_sent
             /\ ui' = InitialUi
             /\ UNCHANGED Checkpoints
             /\ UNCHANGED <<call, ran, executed, ops>> ]_vars
    /\ [][ \A t \in ThreadIds :
             Discarded(t) =>
                 /\ call'[t] = call[t]
                 /\ pc'[t] = pc[t]
                 /\ values'[t] = values[t]
                 /\ interrupt'[t] = interrupt[t]
                 /\ Discarded(t)' ]_vars

\* the session was reset while its thread was suspended; the new thread has
\* been asked a question and resumed, the old one is suspended as it was
C29_Witness ==
    /\ thread_id = ThreadOrder[2]
    /\ pc[ThreadOrder[1]] = "suspended"
    /\ interrupt[ThreadOrder[1]] # None
    /\ call[ThreadOrder[1]].kind = "start"
    /\ call[thread_id].kind = "resume"

----------------------------------------------------------------------------
(* _process_query_suggestions as a function of its argument: the argument   *)
(* is any list of (producer, payload) entries up to a bounded length.       *)

MaxSuggestions == 4   \* entries of the list handed to _process_query_suggestions

Payloads == { [ query |-> "SELECT a" ], [ query |-> "SELECT b" ] }
Entries == { << agent_name, payload >> :
               agent_name \in { agent_order[i] : i \in 1..Len(agent_order) },
               payload \in Payloads }
RECURSIVE ListsOf(_)
ListsOf(n) ==
    IF n = 0 THEN { << >> }
    ELSE { Append(l, e) : l \in ListsOf(n - 1), e \in Entries }
SuggestionInputs == UNION { ListsOf(n) : n \in 0..MaxSuggestions }

InitDisplay ==
    /\ pc = [ t \in ThreadIds |-> "none" ]
    /\ values = [ t \in ThreadIds |-> EmptyState ]
    /\ interrupt = [ t \in ThreadIds |-> None ]
    /\ sends = [ t \in ThreadIds |-> NoTasks ]
    /\ writes = [ t \in ThreadIds |-> NoTasks ]
    /\ finished = [ t \in ThreadIds |-> << >> ]
    /\ base = [ t \in ThreadIds |-> 0 ]
    /\ call = [ t \in ThreadIds |-> NoCall ]
    /\ ran = [ t \in ThreadIds |-> NoRuns ]
    /\ executed = [ t \in ThreadIds |-> << >> ]
    /\ gen = [ t \in ThreadIds |-> 0 ]
    /\ faults = 0
    /\ thread_id = ThreadOrder[1]
    /\ workflow_state = "waiting_for_question"
    /\ ui = InitialUi
    /\ query_suggestions \in SuggestionInputs
    /\ display_suggestions = None
    /\ retry = NoRetry
    /\ ops = 0

\* the call _process_query_suggestions(query_suggestions)
ProcessQuerySuggestions ==
    /\ display_suggestions = None
    /\ display_suggestions' = Some(process_query_suggestions(query_suggestions))
    /\ UNCHANGED <<pc, values, interrupt, sends, writes, finished, base, call, ran,
                   executed, gen, faults, thread_id, workflow_state, ui,
                   query_suggestions, retry, ops>>

SpecDisplay == InitDisplay /\ [][ProcessQuerySuggestions]_vars

\* the position of a producer in agent_order
OrderOf(agent_name) == CHOOSE i \in 1..Len(agent_order) : agent_order[i] = agent_name

\* the positions of the final three entries of a list
FinalThree(qs) == { p \in 1..Len(qs) : p > Len(qs) - 3 }

(* C30: _process_query_suggestions returns, for every input list of         *)
(* (producer, payload) entries, at most three entries with pairwise         *)
(* distinct producers in the order query_agent_1, query_agent_2,            *)
(* query_agent_3; each returned payload is the last payload of its producer *)
(* among the final three entries of the input, every producer of the final  *)
(* three is returned, entries older than the final three never appear, and  *)
(* an empty input yields an empty result.                                   *)
C30_DisplayFunction ==
    display_suggestions # None =>
        LET out == display_suggestions[1]
            qs == query_suggestions
        IN  /\ Len(out) <= 3
            /\ \A i, j \in 1..Len(out) :
                   i < j => OrderOf(out[i][1]) < OrderOf(out[j][1])
            /\ \A i \in 1..Len(out) :
                   \E p \in FinalThree(qs) :
                       /\ qs[p] = out[i]
                       /\ \A q \in FinalThree(qs) : q > p => qs[q][1] # out[i][1]
            /\ \A p \in FinalThree(qs) :
                   \E i \in 1..Len(out) : out[i][1] = qs[p][1]
            /\ qs = << >> => out = << >>

\* a list of four entries: the first is the only one of query_agent_1 and is
\* older than the final three, in which query_agent_3 occurs twice
C30_Witness ==
    /\ display_suggestions # None
    /\ Len(query_suggestions) = 4
    /\ query_suggestions[1][1] = "query_agent_1"
    /\ query_suggestions[2] = << "query_agent_3", [ query |-> "SELECT a" ] >>
    /\ query_suggestions[3][1] = "query_agent_2"
    /\ query_suggestions[4] = << "query_agent_3", [ query |-> "SELECT b" ] >>
    /\ Len(display_suggestions[1]) = 2

----------------------------------------------------------------------------
(* The feedback panel on any candidate list: a stream call returns with the *)
(* thread suspended and some entries appended to the candidate list, and    *)
(* the script reruns any number of times while the thread stays suspended.  *)

\* the feedback panel has been rendered for the suspension
PanelRendered ==
    display_suggestions = Some(process_query_suggestions(query_suggestions))

\* the entries a further fan-out may append to the candidate list: the user
\* sends the input that leads to it from the rendered panel
Extensions ==
    IF ops < MaxFanOuts /\ (ops = 0 \/ PanelRendered)
    THEN UNION { ListsOf(n) : n \in 0..(MaxSuggestions - Len(query_suggestions)) }
    ELSE { }

\* a stream call has returned with the thread suspended: the candidate list
\* has grown by ext, and _handle_workflow_state takes the interrupt
SuspendWith(ext) ==
    /\ ops < MaxFanOuts
    /\ ops = 0 \/ PanelRendered
    /\ Len(query_suggestions) + Len(ext) <= MaxSuggestions
    /\ query_suggestions' = query_suggestions \o ext
    /\ display_suggestions' = None
    /\ workflow_state' = handle_workflow_state(<< "wait_user_feedback" >>)
    /\ ui' = handle_workflow_state_ui(set_processing_flags(ui), << "wait_user_feedback" >>,
                 Some([ action |-> "wait_user_feedback",
                        query_suggestions |-> query_suggestions' ]))
    /\ ops' = ops + 1
    /\ UNCHANGED <<pc, values, interrupt, sends, writes, finished, base, call, ran,
                   executed, gen, faults, thread_id, retry>>

\* one rerun of the script with the feedback panel: _render_feedback_input
\* calls display_query_suggestions
RenderFeedbackPanel ==
    /\ Panel = "feedback"
    /\ ui.current_interrupt # None
    /\ LET r == display_query_suggestions(ui, process_query_suggestions(query_suggestions))
       IN  /\ ui' = r.ui
           /\ display_suggestions' = Some(r.shown)
    /\ UNCHANGED <<pc, values, interrupt, sends, writes, finished, base, call, ran,
                   executed, gen, faults, thread_id, workflow_state,
                   query_suggestions, retry, ops>>

NextPanel ==
    \/ \E ext \in Extensions : SuspendWith(ext)
    \/ RenderFeedbackPanel

\* st.rerun() follows every stream call and every added summary, so the panel
\* is rendered again
SpecPanel == Init /\ [][NextPanel]_vars /\ WF_vars(RenderFeedbackPanel)

\* the summary message of a list of suggestions
SummaryOf(suggestions) == add_suggestions_to_messages(InitialUi, suggestions).messages[1]

\* the suggestions of the current suspension
Candidates == process_query_suggestions(query_suggestions)

\* the step is a rerun while the thread stays suspended
RerunStep == ops' = ops

(* C31: for each suspension with a non-empty candidate list the client      *)
(* appends the suggestions summary to the message history exactly once,     *)
(* however many reruns happen while the thread stays suspended: the rerun   *)
(* that appends it sets query_suggestions_displayed, no rerun appends while *)
(* the flag is set, the flag stays set until the next suspension, and the   *)
(* options are offered only after the summary. For a suspension whose       *)
(* candidate list is empty no summary is appended and no option buttons are *)
(* offered. Every suspension gets its panel rendered.                       *)
C31_SummaryOnce ==
    /\ [][ RerunStep =>
             /\ ui'.messages # ui.messages =>
                    /\ Candidates # << >>
                    /\ ~ui.query_suggestions_displayed
                    /\ ui'.query_suggestions_displayed
                    /\ ui'.messages = Append(ui.messages, SummaryOf(Candidates))
             /\ ui.query_suggestions_displayed =>
                    /\ ui'.messages = ui.messages
                    /\ ui'.query_suggestions_displayed
             /\ Candidates = << >> =>
                    /\ ui'.messages = ui.messages
                    /\ display_suggestions' \in { None, Some(<< >>) } ]_vars
    /\ [] /\ Len(ui.messages) <= ops
          /\ (display_suggestions # None /\ display_suggestions # Some(<< >>)) =>
                /\ display_suggestions = Some(Candidates)
                /\ ui.query_suggestions_displayed
                /\ ui.messages # << >>
                /\ ui.messages[Len(ui.messages)] = SummaryOf(Candidates)
          /\ (Candidates # << >> /\ ui.query_suggestions_displayed) =>
                ui.messages[Len(ui.messages)] = SummaryOf(Candidates)
    /\ (ops > 0 /\ display_suggestions = None) ~> PanelRendered

\* the second suspension of the thread has a candidate list of four entries
\* and its options are offered; each of the two suspensions has its summary
C31_Witness ==
    /\ ops = 2
    /\ Len(query_suggestions) = 4
    /\ display_suggestions = Some(Candidates)
    /\ Candidates # << >>
    /\ Len(ui.messages) = 2
    /\ ui.messages[1] # ui.messages[2]

----------------------------------------------------------------------------
(* SafeExecutor.execute_with_retry(func, max_retries, delay, context): one  *)
(* call of it, for every max_retries up to a bound and every way func may   *)
(* answer its calls.                                                        *)

MaxRetries == 4   \* the largest max_retries handed to execute_with_retry

\* what a call of func may do: return a value, or raise an exception
FuncOutcomes ==
    { [ ok |-> TRUE, value |-> "rows a" ], [ ok |-> TRUE, value |-> "rows b" ],
      [ ok |-> FALSE, value |-> "timeout" ], [ ok |-> FALSE, value |-> "refused" ] }

InitRetry ==
    /\ pc = [ t \in ThreadIds |-> "none" ]
    /\ values = [ t \in ThreadIds |-> EmptyState ]
    /\ interrupt = [ t \in ThreadIds |-> None ]
    /\ sends = [ t \in ThreadIds |-> NoTasks ]
    /\ writes = [ t \in ThreadIds |-> NoTasks ]
    /\ finished = [ t \in ThreadIds |-> << >> ]
    /\ base = [ t \in ThreadIds |-> 0 ]
    /\ call = [ t \in ThreadIds |-> NoCall ]
    /\ ran = [ t \in ThreadIds |-> NoRuns ]
    /\ executed = [ t \in ThreadIds |-> << >> ]
    /\ gen = [ t \in ThreadIds |-> 0 ]
    /\ faults = 0
    /\ thread_id = ThreadOrder[1]
    /\ workflow_state = "waiting_for_question"
    /\ ui = InitialUi
    /\ query_suggestions = << >>
    /\ display_suggestions = None
    /\ \E n \in 0..MaxRetries :
         retry = [ NoRetry EXCEPT !.max_retries = n, !.status = "loop" ]
    /\ ops = 0

\* the except branch's test for the last attempt, taken one attempt late
IsLastAttemptLate(attempt, max_retries) == attempt = max_retries

\* `attempt == max_retries - 1`
is_last_attempt(attempt, max_retries) == attempt = max_retries - 1

RetryFrame ==
    UNCHANGED <<pc, values, interrupt, sends, writes, finished, base, call, ran,
                executed, gen, faults, thread_id, workflow_state, ui,
                query_suggestions, display_suggestions, ops>>

\* the body of the loop for the next attempt of range(max_retries): func is
\* called; its value is returned, or its exception is re-raised on the last
\* attempt and followed by a wait otherwise
CallFunc ==
    /\ retry.status = "loop"
    /\ retry.attempt < retry.max_retries
    /\ \E outcome \in FuncOutcomes :
         retry' = [ retry EXCEPT
                      !.history = Append(@, outcome),
                      !.status = IF outcome.ok THEN "returned"
                                 ELSE IF is_last_attempt(retry.attempt, retry.max_retries)
                                      THEN "raised"
                                      ELSE "sleep",
                      !.result = IF outcome.ok \/ is_last_attempt(retry.attempt, retry.max_retries)
                                 THEN Some(outcome.value)
                                 ELSE None ]
    /\ RetryFrame

\* time.sleep(delay), then the loop goes to the next attempt
Sleep ==
    /\ retry.status = "sleep"
    /\ retry' = [ retry EXCEPT !.sleeps = @ + 1, !.attempt = @ + 1, !.status = "loop" ]
    /\ RetryFrame

\* range(max_retries) is exhausted: the `return None` after the loop
ReturnNone ==
    /\ retry.status = "loop"
    /\ retry.attempt >= retry.max_retries
    /\ retry' = [ retry EXCEPT !.status = "returned", !.result = None ]
    /\ RetryFrame

NextRetry == CallFunc \/ Sleep \/ ReturnNone

\* the call runs on until it returns or raises
SpecRetry == InitRetry /\ [][NextRetry]_vars /\ WF_vars(NextRetry)

\* the call of execute_with_retry has ended
RetryEnded == retry.status \in {"returned", "raised"}

(* C32: execute_with_retry with max_retries = n >= 1 calls func at most n   *)
(* times, stops at and returns the result of the first call that succeeds,  *)
(* and if all n calls raise it re-raises the exception of the n-th call; it *)
(* waits between attempts but not after the last one, and with             *)
(* max_retries = 0 it returns None without calling func. The call ends.     *)
C32_RetryContract ==
    /\ [] LET n == retry.max_retries
              h == retry.history
              calls == Len(retry.history)
          IN  /\ calls <= n
              /\ \A i \in 1..(calls - 1) : ~h[i].ok
              /\ retry.status = "sleep" =>
                     calls < n /\ retry.sleeps = calls - 1 /\ ~h[calls].ok
              /\ retry.status = "loop" => retry.sleeps = calls
              /\ RetryEnded =>
                     retry.sleeps = IF calls = 0 THEN 0 ELSE calls - 1
              /\ (retry.status = "returned" /\ n >= 1) =>
                     /\ calls >= 1
                     /\ h[calls].ok
                     /\ retry.result = Some(h[calls].value)
              /\ retry.status = "raised" =>
                     /\ n >= 1 /\ calls = n
                     /\ ~h[n].ok
                     /\ retry.result = Some(h[n].value)
              /\ (n = 0 /\ RetryEnded) =>
                     calls = 0 /\ retry.status = "returned" /\ retry.result = None
    /\ <> RetryEnded

\* three attempts have raised, the last with another exception than the
\* first, and the call has re-raised after two waits
C32_Witness ==
    /\ retry.status = "raised"
    /\ retry.max_retries = 3
    /\ Len(retry.history) = 3
    /\ retry.sleeps = 2
    /\ retry.history[1].value = "timeout"
    /\ retry.result = Some("refused")

====
